---- MODULE Spec2Model ----
(***************************************************************************)
(* Model of the mock-trial tool's server core: the content relevance       *)
(* classifier and blocking policy (server/content-filter.ts), the usage    *)
(* accounting (checkUsageLimits in server/routes.ts over the storage       *)
(* aggregates of server/storage) and the two request handlers that invoke  *)
(* the text-generation collaborator.                                        *)
(*                                                                         *)
(* Texts are TLA+ strings; confidences are percentages (0.85 is 85);       *)
(* money is counted in units of 1/10000 dollar, the precision that         *)
(* calculateCost's toFixed(4) gives every ledger entry.                    *)
(***************************************************************************)
EXTENDS Integers, Sequences, FiniteSets, TLC

\* "no value": JavaScript undefined / SQL NULL
Null == "<null>"

(***************************************************************************)
(* State.                                                                  *)
(*                                                                         *)
(* The store: students maps an email to ReadNone or ReadRow(students row); *)
(* settings is ReadNone or ReadRow(the "global" settings row); usageStats  *)
(* holds the usage_stats rows in insertion order; now is the clock.        *)
(*                                                                         *)
(* chatSessions, chatMessages and violationEvents hold the rows of their   *)
(* tables in insertion order (a session's id is its position); req maps a  *)
(* request to the state of its handler.                                    *)
(*                                                                         *)
(* A run of the classifier or of the blocking policy: fText is the         *)
(* question, fCall the function called on it (Null: none yet), fLocals     *)
(* the classifier's counters for fText, fSettingsRead the outcome of the   *)
(* settings read made by shouldBlockContent, fResult the returned object.  *)
(*                                                                         *)
(* A run of checkUsageLimits: uCall is Null until it has run, uFailAt the  *)
(* read that rejected, uResult the returned object.                        *)
(***************************************************************************)
VARIABLES students, settings, usageStats, now,
          chatSessions, chatMessages, violationEvents, req,
          fText, fCall, fLocals, fSettingsRead, fResult,
          uCall, uFailAt, uResult,
          loginAttempts, adminTokens, issued, aResp

storeVars == << students, settings, usageStats, now >>

serverVars == << chatSessions, chatMessages, violationEvents, req >>

filterVars == << fText, fCall, fLocals, fSettingsRead, fResult >>

usageVars == << uCall, uFailAt, uResult >>

adminVars == << loginAttempts, adminTokens, issued, aResp >>

vars == << storeVars, serverVars, filterVars, usageVars, adminVars >>

\* nothing has been returned yet
NoResult == [ pending |-> TRUE ]

(***************************************************************************)
(* Keyword lexicon, content-filter.ts:4-82.  The lists are kept as         *)
(* sequences, duplicates included, because the code counts list entries.   *)
(***************************************************************************)
Keywords_math ==
  << "algebra", "calculus", "derivative", "integral", "equation", "formula",
     "polynomial", "matrix", "logarithm", "trigonometry", "geometry",
     "theorem", "proof", "factor", "variable", "coefficient", "quadratic",
     "linear", "exponential", "sine", "cosine", "tangent", "pi", "infinity",
     "limit", "differential", "mathematics", "arithmetic", "fraction",
     "decimal", "percentage", "statistics", "probability", "graph",
     "coordinate", "angle", "radius", "diameter", "circumference", "area",
     "volume", "perimeter", "hypotenuse", "vertex", "slope", "intercept" >>

Keywords_science ==
  << "physics", "chemistry", "biology", "cell", "DNA", "RNA", "gene",
     "chromosome", "protein", "enzyme", "molecule", "atom", "electron",
     "proton", "neutron", "element", "compound", "reaction", "catalyst",
     "photosynthesis", "mitosis", "evolution", "ecosystem", "species",
     "habitat", "organism", "bacteria", "virus", "vaccine", "antibiotic",
     "gravity", "force", "energy", "momentum", "velocity", "acceleration",
     "magnetic", "electric", "circuit", "voltage", "current", "resistance",
     "wave", "frequency", "wavelength", "spectrum", "radiation", "nuclear",
     "atomic", "quantum", "periodic table", "isotope" >>

Keywords_technology ==
  << "programming", "code", "algorithm", "python", "java", "javascript",
     "html", "css", "sql", "database", "server", "client", "api", "function",
     "variable", "loop", "array", "object", "class", "inheritance",
     "debugging", "compile", "syntax", "framework", "library", "software",
     "hardware", "computer", "processor", "memory", "storage", "network",
     "internet", "website", "application", "mobile", "android", "ios",
     "windows", "linux", "mac", "artificial intelligence", "machine learning",
     "data science", "blockchain", "cryptocurrency", "cloud computing" >>

Keywords_other ==
  << "economics", "finance", "accounting", "business", "marketing",
     "psychology", "sociology", "history", "geography", "politics",
     "government", "law", "legal", "philosophy", "theology", "religion",
     "medicine", "medical", "health", "anatomy", "physiology", "engineering",
     "mechanical", "electrical", "civil", "chemical" >>

LITERATURE_KEYWORDS ==
  << "princess bride", "westley", "buttercup", "inigo", "montoya", "fezzik",
     "vizzini", "humperdinck", "miracle max", "valerie", "albino", "rugen",
     "morgenstern", "goldman", "florin", "guilder", "cliffs of insanity",
     "fire swamp", "rodents of unusual size", "dread pirate roberts",
     "six fingered man", "as you wish", "hello my name is inigo montoya",
     "you killed my father", "prepare to die", "inconceivable", "mostly dead",
     "all dead", "iocane powder", "battle of wits", "murder", "murdered",
     "kill", "killed", "killing", "death", "die", "dying", "dead", "kidnap",
     "kidnapped", "kidnapping", "capture", "captured", "abduct", "torture",
     "tortured", "pain", "suffering", "machine", "poison", "poisoned",
     "iocane", "sword", "fight", "fighting", "duel", "battle", "combat",
     "fencing", "revenge", "vengeance", "avenge", "love", "true love",
     "romance", "marry", "marriage", "wedding", "bride", "groom", "giant",
     "monster", "beast", "rodent", "rous", "fire", "swamp", "cliff", "castle",
     "pit", "despair", "miracle", "magic", "witch", "wizard", "character",
     "motivation", "plot", "theme", "symbolism", "metaphor", "narrative",
     "story", "protagonist", "antagonist", "conflict", "resolution", "climax",
     "exposition", "rising action", "falling action", "literary device",
     "irony", "foreshadowing", "allegory", "satire", "mood", "tone",
     "setting", "dialogue", "monologue", "soliloquy", "point of view",
     "first person", "third person", "omniscient", "unreliable narrator",
     "genre", "fiction", "fantasy", "adventure", "romance", "comedy",
     "tragedy", "epic", "novel", "book", "chapter", "scene", "act",
     "analysis", "interpretation", "meaning", "significance", "author",
     "reader", "audience", "criticism", "review", "essay", "literature",
     "english", "writing", "text", "passage", "quote", "quotation", "excerpt",
     "evidence", "support", "argument", "thesis", "reasoning", "logic",
     "persuasion", "rhetoric", "style", "voice", "diction", "syntax",
     "structure", "organization", "development" >>

Categories == << "math", "science", "technology", "other" >>

\* the lexicon with 'variable' listed under math only
NON_ENGLISH_KEYWORDS_NoOverlap ==
  [ math |-> Keywords_math, science |-> Keywords_science,
    technology |-> SelectSeq(Keywords_technology, LAMBDA k : k # "variable"),
    other |-> Keywords_other ]

NON_ENGLISH_KEYWORDS ==
  [ math |-> Keywords_math, science |-> Keywords_science,
    technology |-> Keywords_technology, other |-> Keywords_other ]

\* QUESTION_PATTERNS.homework: alternatives of the regex, anchored at the start
HomeworkOpeners ==
  { "what is", "explain", "define", "how does", "calculate", "solve",
    "find the", "prove", "show that" }

\* QUESTION_PATTERNS.directAnswer: what'?s | whats | tell me about | give me | list
DirectAnswerOpeners ==
  { "what's", "whats", "tell me about", "give me", "list" }

(***************************************************************************)
(* String helpers: String.prototype.toLowerCase, trim, includes and the    *)
(* start-anchored, case-insensitive regex test.                            *)
(***************************************************************************)
LowerChar(c) ==
  CASE c = "A" -> "a" [] c = "B" -> "b" [] c = "C" -> "c" [] c = "D" -> "d"
    [] c = "E" -> "e" [] c = "F" -> "f" [] c = "G" -> "g" [] c = "H" -> "h"
    [] c = "I" -> "i" [] c = "J" -> "j" [] c = "K" -> "k" [] c = "L" -> "l"
    [] c = "M" -> "m" [] c = "N" -> "n" [] c = "O" -> "o" [] c = "P" -> "p"
    [] c = "Q" -> "q" [] c = "R" -> "r" [] c = "S" -> "s" [] c = "T" -> "t"
    [] c = "U" -> "u" [] c = "V" -> "v" [] c = "W" -> "w" [] c = "X" -> "x"
    [] c = "Y" -> "y" [] c = "Z" -> "z" [] OTHER -> c

RECURSIVE ToLowerCase(_)
ToLowerCase(s) ==
  IF Len(s) = 0 THEN ""
  ELSE LowerChar(SubSeq(s, 1, 1)) \o ToLowerCase(SubSeq(s, 2, Len(s)))

IsSpace(c) == c \in { " ", "\t", "\n" }

RECURSIVE TrimStart(_)
TrimStart(s) ==
  IF Len(s) > 0 /\ IsSpace(SubSeq(s, 1, 1))
    THEN TrimStart(SubSeq(s, 2, Len(s))) ELSE s

RECURSIVE TrimEnd(_)
TrimEnd(s) ==
  IF Len(s) > 0 /\ IsSpace(SubSeq(s, Len(s), Len(s)))
    THEN TrimEnd(SubSeq(s, 1, Len(s) - 1)) ELSE s

Trim(s) == TrimEnd(TrimStart(s))

\* a test at the start of the text only (startsWith)
Includes_AtStart(s, k) == Len(k) <= Len(s) /\ SubSeq(s, 1, Len(k)) = k

Includes(s, k) ==
  \E i \in 1..(Len(s) - Len(k) + 1) : SubSeq(s, i, i + Len(k) - 1) = k

StartsWith(s, p) == Len(s) >= Len(p) /\ SubSeq(s, 1, Len(p)) = p

\* regex.test(trimmedContent) with the i flag
TestPattern(openers, s) == \E p \in openers : StartsWith(ToLowerCase(s), p)

(***************************************************************************)
(* checkContentFilter, content-filter.ts:91-221.                           *)
(***************************************************************************)
\* the keyword.toLowerCase() of every list entry, list order kept
LoweredKeywords ==
  [ c \in DOMAIN NON_ENGLISH_KEYWORDS |->
      [ i \in 1..Len(NON_ENGLISH_KEYWORDS[c]) |->
          ToLowerCase(NON_ENGLISH_KEYWORDS[c][i]) ] ]

LoweredLiterature ==
  [ i \in 1..Len(LITERATURE_KEYWORDS) |-> ToLowerCase(LITERATURE_KEYWORDS[i]) ]

\* indices of the entries of a lowered list that occur in the lowered content
Hits(lowerContent, lowered) ==
  { i \in 1..Len(lowered) : Includes(lowerContent, lowered[i]) }

\* the detectedKeywords[category] array: matched entries in list order
RECURSIVE PickInOrder(_, _, _)
PickInOrder(list, idx, from) ==
  IF from > Len(list) THEN << >>
  ELSE IF from \in idx
         THEN << list[from] >> \o PickInOrder(list, idx, from + 1)
         ELSE PickInOrder(list, idx, from + 1)

\* The locals of checkContentFilter after its two keyword loops and the
\* pattern tests (lines 97-139): the scores object, the detectedKeywords
\* object and isHomeworkPattern.
Match(content) ==
  LET lowerContent   == ToLowerCase(content)
      trimmedContent == Trim(content)
      hits == [ c \in DOMAIN NON_ENGLISH_KEYWORDS |->
                  Hits(lowerContent, LoweredKeywords[c]) ]
  IN  [ scores |->
          [ math       |-> Cardinality(hits.math),
            science    |-> Cardinality(hits.science),
            technology |-> Cardinality(hits.technology),
            other      |-> Cardinality(hits.other),
            literature |-> Cardinality(Hits(lowerContent, LoweredLiterature)) ],
        detectedKeywords |->
          [ c \in DOMAIN NON_ENGLISH_KEYWORDS |->
              PickInOrder(NON_ENGLISH_KEYWORDS[c], hits[c], 1) ],
        isHomeworkPattern |->
          TestPattern(HomeworkOpeners, trimmedContent)
            \/ TestPattern(DirectAnswerOpeners, trimmedContent) ]

\* a descending sort that moves an entry in front of its equals
RECURSIVE InsertDesc_Unstable(_, _)
InsertDesc_Unstable(sorted, e) ==
  IF sorted = << >> THEN << e >>
  ELSE IF Head(sorted).score > e.score
         THEN << Head(sorted) >> \o InsertDesc_Unstable(Tail(sorted), e)
         ELSE << e >> \o sorted

\* Array.prototype.sort with (a, b) => b - a: a stable sort, descending by
\* score, so entries with equal scores keep their order in the scores object
RECURSIVE InsertDesc(_, _)
InsertDesc(sorted, e) ==
  IF sorted = << >> THEN << e >>
  ELSE IF Head(sorted).score >= e.score
         THEN << Head(sorted) >> \o InsertDesc(Tail(sorted), e)
         ELSE << e >> \o sorted

RECURSIVE SortDesc(_)
SortDesc(entries) ==
  IF entries = << >> THEN << >>
  ELSE InsertDesc(SortDesc(SubSeq(entries, 1, Len(entries) - 1)),
                  entries[Len(entries)])

\* the first category in the order of the scores object, whatever its count
PrimaryCategory_First(scores) == Categories[1]

\* Object.entries(scores).filter(([cat]) => cat !== 'literature').sort(...)[0][0]
PrimaryCategory(scores) ==
  SortDesc([ i \in 1..Len(Categories) |->
               [ cat |-> Categories[i], score |-> scores[Categories[i]] ] ])[1].cat

\* keywords.slice(0, 5)
Slice5(keywords) == SubSeq(keywords, 1, IF Len(keywords) < 5 THEN Len(keywords) ELSE 5)

\* Math.max in place of Math.min
Min_Max(a, b) == IF a >= b THEN a ELSE b

\* Math.min
Min(a, b) == IF a <= b THEN a ELSE b

\* Classify with the direct-question rule not looking at the literature count
Classify_NoLitTest(scores, isHomeworkPattern, detected) ==
  LET totalNonLit == scores.math + scores.science + scores.technology + scores.other
      totalLit    == scores.literature
      primary     == PrimaryCategory(scores)
  IN  IF totalNonLit >= 1 /\ isHomeworkPattern
        THEN [ isViolation |-> TRUE, category |-> primary, confidence |-> 85,
               details |-> [ template |-> "direct", keywords |-> detected[primary] ] ]
      ELSE IF totalLit >= 3 /\ totalNonLit <= 2
        THEN [ isViolation |-> FALSE, category |-> Null, confidence |-> 90,
               details |-> [ template |-> "strong literature", keywords |-> << >> ] ]
      ELSE IF totalLit > 0 /\ totalNonLit <= 2
        THEN [ isViolation |-> FALSE, category |-> Null, confidence |-> 80,
               details |-> [ template |-> "literature", keywords |-> << >> ] ]
      ELSE IF totalNonLit >= 3
        THEN [ isViolation |-> TRUE, category |-> primary,
               confidence |-> Min(95, totalNonLit * 20),
               details |-> [ template |-> "primarily",
                             keywords |-> Slice5(detected[primary]) ] ]
      ELSE IF totalNonLit >= 2
        THEN [ isViolation |-> TRUE, category |-> primary, confidence |-> 70,
               details |-> [ template |-> "possibly", keywords |-> detected[primary] ] ]
      ELSE IF totalNonLit = 1 /\ ~isHomeworkPattern
        THEN [ isViolation |-> FALSE, category |-> Null, confidence |-> 60,
               details |-> [ template |-> "contextual", keywords |-> << >> ] ]
      ELSE [ isViolation |-> FALSE, category |-> Null, confidence |-> 95,
             details |-> [ template |-> "literature-focused", keywords |-> << >> ] ]

\* Classify with the direct-question rule firing on the opener alone
Classify_OpenerAlone(scores, isHomeworkPattern, detected) ==
  LET totalNonLit == scores.math + scores.science + scores.technology + scores.other
      totalLit    == scores.literature
      primary     == PrimaryCategory(scores)
  IN  IF totalNonLit >= 0 /\ isHomeworkPattern /\ totalLit = 0
        THEN [ isViolation |-> TRUE, category |-> primary, confidence |-> 85,
               details |-> [ template |-> "direct", keywords |-> detected[primary] ] ]
      ELSE IF totalLit >= 3 /\ totalNonLit <= 2
        THEN [ isViolation |-> FALSE, category |-> Null, confidence |-> 90,
               details |-> [ template |-> "strong literature", keywords |-> << >> ] ]
      ELSE IF totalLit > 0 /\ totalNonLit <= 2
        THEN [ isViolation |-> FALSE, category |-> Null, confidence |-> 80,
               details |-> [ template |-> "literature", keywords |-> << >> ] ]
      ELSE IF totalNonLit >= 3
        THEN [ isViolation |-> TRUE, category |-> primary,
               confidence |-> Min(95, totalNonLit * 20),
               details |-> [ template |-> "primarily",
                             keywords |-> Slice5(detected[primary]) ] ]
      ELSE IF totalNonLit >= 2
        THEN [ isViolation |-> TRUE, category |-> primary, confidence |-> 70,
               details |-> [ template |-> "possibly", keywords |-> detected[primary] ] ]
      ELSE IF totalNonLit = 1 /\ ~isHomeworkPattern
        THEN [ isViolation |-> FALSE, category |-> Null, confidence |-> 60,
               details |-> [ template |-> "contextual", keywords |-> << >> ] ]
      ELSE [ isViolation |-> FALSE, category |-> Null, confidence |-> 95,
             details |-> [ template |-> "literature-focused", keywords |-> << >> ] ]

\* Classify with the confidences of the two lenient rules exchanged
Classify_LenienceSwapped(scores, isHomeworkPattern, detected) ==
  LET totalNonLit == scores.math + scores.science + scores.technology + scores.other
      totalLit    == scores.literature
      primary     == PrimaryCategory(scores)
  IN  IF totalNonLit >= 1 /\ isHomeworkPattern /\ totalLit = 0
        THEN [ isViolation |-> TRUE, category |-> primary, confidence |-> 85,
               details |-> [ template |-> "direct", keywords |-> detected[primary] ] ]
      ELSE IF totalLit >= 3 /\ totalNonLit <= 2
        THEN [ isViolation |-> FALSE, category |-> Null, confidence |-> 80,
               details |-> [ template |-> "strong literature", keywords |-> << >> ] ]
      ELSE IF totalLit > 0 /\ totalNonLit <= 2
        THEN [ isViolation |-> FALSE, category |-> Null, confidence |-> 90,
               details |-> [ template |-> "literature", keywords |-> << >> ] ]
      ELSE IF totalNonLit >= 3
        THEN [ isViolation |-> TRUE, category |-> primary,
               confidence |-> Min(95, totalNonLit * 20),
               details |-> [ template |-> "primarily",
                             keywords |-> Slice5(detected[primary]) ] ]
      ELSE IF totalNonLit >= 2
        THEN [ isViolation |-> TRUE, category |-> primary, confidence |-> 70,
               details |-> [ template |-> "possibly", keywords |-> detected[primary] ] ]
      ELSE IF totalNonLit = 1 /\ ~isHomeworkPattern
        THEN [ isViolation |-> FALSE, category |-> Null, confidence |-> 60,
               details |-> [ template |-> "contextual", keywords |-> << >> ] ]
      ELSE [ isViolation |-> FALSE, category |-> Null, confidence |-> 95,
             details |-> [ template |-> "literature-focused", keywords |-> << >> ] ]

\* the ladder with rule (c) asking for exactly one literature keyword
Classify_OneLit(scores, isHomeworkPattern, detected) ==
  LET totalNonLit == scores.math + scores.science + scores.technology + scores.other
      totalLit    == scores.literature
      primary     == PrimaryCategory(scores)
  IN  IF totalNonLit >= 1 /\ isHomeworkPattern /\ totalLit = 0
        THEN [ isViolation |-> TRUE, category |-> primary, confidence |-> 85,
               details |-> [ template |-> "direct", keywords |-> detected[primary] ] ]
      ELSE IF totalLit >= 3 /\ totalNonLit <= 2
        THEN [ isViolation |-> FALSE, category |-> Null, confidence |-> 90,
               details |-> [ template |-> "strong literature", keywords |-> << >> ] ]
      ELSE IF totalLit = 1 /\ totalNonLit <= 2
        THEN [ isViolation |-> FALSE, category |-> Null, confidence |-> 80,
               details |-> [ template |-> "literature", keywords |-> << >> ] ]
      ELSE IF totalNonLit >= 3
        THEN [ isViolation |-> TRUE, category |-> primary,
               confidence |-> Min(95, totalNonLit * 20),
               details |-> [ template |-> "primarily",
                             keywords |-> Slice5(detected[primary]) ] ]
      ELSE IF totalNonLit >= 2
        THEN [ isViolation |-> TRUE, category |-> primary, confidence |-> 70,
               details |-> [ template |-> "possibly", keywords |-> detected[primary] ] ]
      ELSE IF totalNonLit = 1 /\ ~isHomeworkPattern
        THEN [ isViolation |-> FALSE, category |-> Null, confidence |-> 60,
               details |-> [ template |-> "contextual", keywords |-> << >> ] ]
      ELSE [ isViolation |-> FALSE, category |-> Null, confidence |-> 95,
             details |-> [ template |-> "literature-focused", keywords |-> << >> ] ]

\* The decision ladder on the counters.  confidence is a percentage:
\* Math.min(0.95, totalNonLit / 5) is Min(95, totalNonLit * 20).
\* details is kept as its template tag and the keyword list it prints.
Classify(scores, isHomeworkPattern, detected) ==
  LET totalNonLit == scores.math + scores.science + scores.technology + scores.other
      totalLit    == scores.literature
      primary     == PrimaryCategory(scores)
  IN  IF totalNonLit >= 1 /\ isHomeworkPattern /\ totalLit = 0
        THEN [ isViolation |-> TRUE, category |-> primary, confidence |-> 85,
               details |-> [ template |-> "direct", keywords |-> detected[primary] ] ]
      ELSE IF totalLit >= 3 /\ totalNonLit <= 2
        THEN [ isViolation |-> FALSE, category |-> Null, confidence |-> 90,
               details |-> [ template |-> "strong literature", keywords |-> << >> ] ]
      ELSE IF totalLit > 0 /\ totalNonLit <= 2
        THEN [ isViolation |-> FALSE, category |-> Null, confidence |-> 80,
               details |-> [ template |-> "literature", keywords |-> << >> ] ]
      ELSE IF totalNonLit >= 3
        THEN [ isViolation |-> TRUE, category |-> primary,
               confidence |-> Min(95, totalNonLit * 20),
               details |-> [ template |-> "primarily",
                             keywords |-> Slice5(detected[primary]) ] ]
      ELSE IF totalNonLit >= 2
        THEN [ isViolation |-> TRUE, category |-> primary, confidence |-> 70,
               details |-> [ template |-> "possibly", keywords |-> detected[primary] ] ]
      ELSE IF totalNonLit = 1 /\ ~isHomeworkPattern
        THEN [ isViolation |-> FALSE, category |-> Null, confidence |-> 60,
               details |-> [ template |-> "contextual", keywords |-> << >> ] ]
      ELSE [ isViolation |-> FALSE, category |-> Null, confidence |-> 95,
             details |-> [ template |-> "literature-focused", keywords |-> << >> ] ]

checkContentFilter(content) ==
  LET m == Match(content)
  IN  Classify(m.scores, m.isHomeworkPattern, m.detectedKeywords)

(***************************************************************************)
(* Outcomes of an awaited storage read: the promise rejects (ReadThrows),  *)
(* resolves to undefined (ReadNone) or resolves to a row (ReadRow).        *)
(***************************************************************************)
ReadThrows == [ status |-> "throws" ]
ReadNone == [ status |-> "none" ]
ReadRow(row) == [ status |-> "ok", row |-> row ]

\* an absent reason (the property is not set on the returned object)
NoReason == [ template |-> Null, category |-> Null ]

(***************************************************************************)
(* shouldBlockContent, content-filter.ts:253-295.  settingsRead is the     *)
(* outcome of `await storage.getSettings()`.                               *)
(***************************************************************************)
\* settings?.contentFilterMode || 'normal'
ModeOf(settingsRead) ==
  IF settingsRead.status = "none" THEN "normal"
  ELSE IF settingsRead.row.contentFilterMode = "" THEN "normal"
  ELSE settingsRead.row.contentFilterMode

\* shouldBlockContent blocking in normal mode only above 0.7
shouldBlockContent_Above(content, settingsRead) ==
  LET filterResult == checkContentFilter(content)
  IN  IF settingsRead.status = "throws"
        \* catch: fail open - don't block on error
        THEN [ shouldBlock |-> FALSE, reason |-> NoReason, filterResult |-> filterResult ]
      ELSE IF ~filterResult.isViolation
        THEN [ shouldBlock |-> FALSE, reason |-> NoReason, filterResult |-> filterResult ]
      ELSE IF ModeOf(settingsRead) = "strict"
        THEN [ shouldBlock |-> TRUE,
               reason |-> [ template |-> "appears to be about",
                            category |-> filterResult.category ],
               filterResult |-> filterResult ]
      ELSE IF filterResult.confidence > 70
        THEN [ shouldBlock |-> TRUE,
               reason |-> [ template |-> "seems to be about",
                            category |-> filterResult.category ],
               filterResult |-> filterResult ]
      ELSE [ shouldBlock |-> FALSE, reason |-> NoReason, filterResult |-> filterResult ]

\* shouldBlockContent blocking a violation when the settings read rejects
shouldBlockContent_FailClosed(content, settingsRead) ==
  LET filterResult == checkContentFilter(content)
  IN  IF settingsRead.status = "throws"
        \* catch: fail open - don't block on error
        THEN [ shouldBlock |-> filterResult.isViolation, reason |-> NoReason,
               filterResult |-> filterResult ]
      ELSE IF ~filterResult.isViolation
        THEN [ shouldBlock |-> FALSE, reason |-> NoReason, filterResult |-> filterResult ]
      ELSE IF ModeOf(settingsRead) = "strict"
        THEN [ shouldBlock |-> TRUE,
               reason |-> [ template |-> "appears to be about",
                            category |-> filterResult.category ],
               filterResult |-> filterResult ]
      ELSE IF filterResult.confidence >= 70
        THEN [ shouldBlock |-> TRUE,
               reason |-> [ template |-> "seems to be about",
                            category |-> filterResult.category ],
               filterResult |-> filterResult ]
      ELSE [ shouldBlock |-> FALSE, reason |-> NoReason, filterResult |-> filterResult ]

shouldBlockContent(content, settingsRead) ==
  LET filterResult == checkContentFilter(content)
  IN  IF settingsRead.status = "throws"
        \* catch: fail open - don't block on error
        THEN [ shouldBlock |-> FALSE, reason |-> NoReason, filterResult |-> filterResult ]
      ELSE IF ~filterResult.isViolation
        THEN [ shouldBlock |-> FALSE, reason |-> NoReason, filterResult |-> filterResult ]
      ELSE IF ModeOf(settingsRead) = "strict"
        THEN [ shouldBlock |-> TRUE,
               reason |-> [ template |-> "appears to be about",
                            category |-> filterResult.category ],
               filterResult |-> filterResult ]
      ELSE IF filterResult.confidence >= 70
        THEN [ shouldBlock |-> TRUE,
               reason |-> [ template |-> "seems to be about",
                            category |-> filterResult.category ],
               filterResult |-> filterResult ]
      ELSE [ shouldBlock |-> FALSE, reason |-> NoReason, filterResult |-> filterResult ]

(***************************************************************************)
(* The store (server/storage, DatabaseStorage) and the clock.              *)
(*                                                                         *)
(* A nullable integer column holds NoInt (NULL) or << n >>; a nullable     *)
(* text column holds Null or a string.  Time is counted in ticks;          *)
(* timestamps are ticks.                                                   *)
(***************************************************************************)
NoInt == << >>

TicksPerDay == 2
DaysPerMonth == 2

Emails == { "s1@school.edu", "s2@school.edu" }

\* new Date(now.getFullYear(), now.getMonth(), now.getDate()) and
\* new Date(now.getFullYear(), now.getMonth(), 1)
StartDate(window) ==
  IF window = "day" THEN now - (now % TicksPerDay)
  ELSE now - (now % (TicksPerDay * DaysPerMonth))

RECURSIVE SumTokens(_)
SumTokens(rows) ==
  IF rows = << >> THEN 0 ELSE Head(rows).tokensUsed + SumTokens(Tail(rows))

\* SUM(CAST(cost AS DECIMAL)); a NULL cost does not count
RECURSIVE SumCost(_)
SumCost(rows) ==
  IF rows = << >> THEN 0
  ELSE (IF Head(rows).cost = NoInt THEN 0 ELSE Head(rows).cost[1])
         + SumCost(Tail(rows))

getUsageByStudent(studentEmail, window) ==
  LET InWindow(row) ==
        row.studentEmail = studentEmail /\ row.timestamp >= StartDate(window)
      rows == SelectSeq(usageStats, InWindow)
  IN  [ totalTokens |-> SumTokens(rows), totalCost |-> SumCost(rows) ]

getGlobalUsage(window) ==
  LET InWindow(row) == row.timestamp >= StartDate(window)
      rows == SelectSeq(usageStats, InWindow)
  IN  [ totalTokens |-> SumTokens(rows), totalCost |-> SumCost(rows) ]

getStudent(email) == students[email]

getSettings == settings

(***************************************************************************)
(* parseFloat on a limit column's text, in units of 1/10000 dollar:        *)
(* << v >> for a plain decimal with at most four fraction digits,          *)
(* NoInt for NaN (no leading digit).                                       *)
(***************************************************************************)
Digits == << "0", "1", "2", "3", "4", "5", "6", "7", "8", "9" >>

IsDigit(c) == \E d \in 1..10 : Digits[d] = c

DigitValue(c) == (CHOOSE d \in 1..10 : Digits[d] = c) - 1

\* length of the longest prefix of s made of digits
RECURSIVE DigitRun(_)
DigitRun(s) ==
  IF Len(s) > 0 /\ IsDigit(SubSeq(s, 1, 1))
    THEN 1 + DigitRun(SubSeq(s, 2, Len(s))) ELSE 0

\* value of a string of digits
RECURSIVE DigitsValue(_)
DigitsValue(s) ==
  IF Len(s) = 0 THEN 0
  ELSE 10 * DigitsValue(SubSeq(s, 1, Len(s) - 1))
         + DigitValue(SubSeq(s, Len(s), Len(s)))

parseFloat(text) ==
  LET s        == TrimStart(text)
      intLen   == DigitRun(s)
      rest     == SubSeq(s, intLen + 1, Len(s))
      hasPoint == Len(rest) > 0 /\ SubSeq(rest, 1, 1) = "."
      fracAll  == IF hasPoint THEN SubSeq(rest, 2, Len(rest)) ELSE ""
      fracLen  == IF DigitRun(fracAll) < 4 THEN DigitRun(fracAll) ELSE 4
      frac     == SubSeq(fracAll, 1, fracLen) \o SubSeq("0000", 1, 4 - fracLen)
  IN  IF intLen = 0 /\ (~hasPoint \/ fracLen = 0) THEN NoInt
      ELSE << 10000 * DigitsValue(SubSeq(s, 1, intLen)) + DigitsValue(frac) >>

\* JavaScript truthiness of a nullable integer and of a nullable text
TruthyInt(v) == v # NoInt /\ v[1] # 0
TruthyText(v) == v # Null /\ v # ""

\* usage >= parseFloat(limit): false when the limit parses to NaN
AtLeastParsed(usage, limitText) ==
  LET limit == parseFloat(limitText)
  IN  limit # NoInt /\ usage >= limit[1]

(***************************************************************************)
(* checkUsageLimits, routes.ts:18-122.  The function awaits six reads in   *)
(* a row: 1 getStudent, 2 getSettings, 3 and 4 getUsageByStudent (day,     *)
(* month), 5 and 6 getGlobalUsage (day, month).  failAt is the number of   *)
(* the first read that rejects if it is made, 0 when none does.            *)
(***************************************************************************)
NoLimitsInfo ==
  [ dailyTokens |-> 0, monthlyTokens |-> 0, dailyCost |-> 0, monthlyCost |-> 0 ]

UsageReason(template, tokens, dollars) ==
  [ template |-> template, tokens |-> tokens, dollars |-> dollars ]

\* the lookup test without the isActive part
NotFoundOrInactive_OnlyMissing(student) == student.status # "ok"

\* !student || !student.isActive
NotFoundOrInactive(student) == student.status # "ok" \/ ~student.row.isActive

\* the catch block letting the request through
UnableToVerify_FailOpen ==
  [ canProceed |-> TRUE,
    reason |-> UsageReason(Null, NoInt, Null),
    limitsInfo |-> NoLimitsInfo ]

\* the catch block: fail closed
UnableToVerify ==
  [ canProceed |-> FALSE,
    reason |-> UsageReason("Unable to verify usage limits", NoInt, Null),
    limitsInfo |-> NoLimitsInfo ]

checkUsageLimits(studentEmail, failAt) ==
  LET student == getStudent(studentEmail)
      dailyUsage         == getUsageByStudent(studentEmail, "day")
      monthlyUsage       == getUsageByStudent(studentEmail, "month")
      globalDailyUsage   == getGlobalUsage("day")
      globalMonthlyUsage == getGlobalUsage("month")
      limitsInfo ==
        [ dailyTokens |-> dailyUsage.totalTokens,
          monthlyTokens |-> monthlyUsage.totalTokens,
          dailyCost |-> dailyUsage.totalCost,
          monthlyCost |-> monthlyUsage.totalCost ]
      unable == UnableToVerify
      \* settings?.x : undefined when there is no settings row
      globalDailyTokenLimit ==
        IF settings.status = "ok" THEN settings.row.globalDailyTokenLimit ELSE NoInt
      globalMonthlyCostLimit ==
        IF settings.status = "ok" THEN settings.row.globalMonthlyCostLimit ELSE Null
  IN  IF failAt = 1 THEN unable
      ELSE IF NotFoundOrInactive(student)
        THEN [ canProceed |-> FALSE,
               reason |-> UsageReason("Student not found or inactive", NoInt, Null),
               limitsInfo |-> NoLimitsInfo ]
      ELSE IF failAt \in 2..6 THEN unable
      ELSE IF TruthyInt(student.row.dailyTokenLimit)
                /\ dailyUsage.totalTokens >= student.row.dailyTokenLimit[1]
        THEN [ canProceed |-> FALSE,
               reason |-> UsageReason("Daily token limit reached",
                                      student.row.dailyTokenLimit, Null),
               limitsInfo |-> limitsInfo ]
      ELSE IF TruthyText(student.row.monthlyCostLimit)
                /\ AtLeastParsed(monthlyUsage.totalCost, student.row.monthlyCostLimit)
        THEN [ canProceed |-> FALSE,
               reason |-> UsageReason("Monthly cost limit reached",
                                      NoInt, student.row.monthlyCostLimit),
               limitsInfo |-> limitsInfo ]
      ELSE IF TruthyInt(globalDailyTokenLimit)
                /\ globalDailyUsage.totalTokens >= globalDailyTokenLimit[1]
        THEN [ canProceed |-> FALSE,
               reason |-> UsageReason("Global daily token limit reached",
                                      globalDailyTokenLimit, Null),
               limitsInfo |-> limitsInfo ]
      ELSE IF TruthyText(globalMonthlyCostLimit)
                /\ AtLeastParsed(globalMonthlyUsage.totalCost, globalMonthlyCostLimit)
        THEN [ canProceed |-> FALSE,
               reason |-> UsageReason("Global monthly cost limit reached",
                                      NoInt, globalMonthlyCostLimit),
               limitsInfo |-> limitsInfo ]
      ELSE [ canProceed |-> TRUE,
             reason |-> UsageReason(Null, NoInt, Null),
             limitsInfo |-> limitsInfo ]

(***************************************************************************)
(* calculateCost, openai-service.ts:147-157: 0.0025 dollar per 1000 prompt *)
(* tokens plus 0.01 dollar per 1000 completion tokens, printed by          *)
(* toFixed(4); in units of 1/10000 dollar that is (25 p + 100 c) / 1000    *)
(* rounded to the nearest unit.                                            *)
(***************************************************************************)
calculateCost(usage) ==
  (25 * usage.prompt_tokens + 100 * usage.completion_tokens + 500) \div 1000

(***************************************************************************)
(* The request handlers POST /api/sessions/:sessionId/messages             *)
(* (routes.ts:228-328) and POST /api/sessions/:sessionId/professor-mode    *)
(* (routes.ts:357-432).  A handler runs from one await to the next; every  *)
(* awaited store call and the text-generation call may reject, which the   *)
(* handler's catch turns into a 500 response.                              *)
(*                                                                         *)
(* req[r].stages lists, in order, the checks the request has passed        *)
(* through and the invocation of the text-generation collaborator.         *)
(***************************************************************************)
MaxRequests == 1

Reqs == 1..MaxRequests

Routes == { "messages", "professor-mode" }

\* what the text-generation service reports as response.usage
LlmUsages ==
  { [ prompt_tokens |-> 400, completion_tokens |-> 100, total_tokens |-> 500 ] }

IdleRequest ==
  [ pc |-> "idle", route |-> Null, sessionId |-> 0, content |-> "",
    studentEmail |-> Null, usageCheck |-> NoResult, contentRead |-> ReadNone,
    contentCheck |-> NoResult, usage |-> NoResult, stages |-> << >>,
    status |-> 0, bypassWarning |-> FALSE, violationId |-> NoInt ]

\* res.status(code).json(...): the handler is finished
Respond(r, code) == [ req EXCEPT ![r].pc = "done", ![r].status = code ]

\* the request arrives; a missing or empty content / question is a 400
Receive(r, route, sessionId, content) ==
  /\ req[r].pc = "idle"
  /\ \A q \in Reqs : q < r => req[q].pc # "idle"
  /\ req' = [ req EXCEPT ![r] =
                [ @ EXCEPT !.route = route, !.sessionId = sessionId,
                           !.content = content,
                           !.pc = IF content = "" THEN "done" ELSE "getSession",
                           !.status = IF content = "" THEN 400 ELSE 0 ] ]
  /\ UNCHANGED << storeVars, chatSessions, chatMessages, violationEvents >>

\* POST .../messages with body { content, bypassWarning: true, violationId }:
\* the "proceed anyway" request of the client for a question that was
\* blocked and logged as event violationId.  The handler destructures only
\* content and isProfessorMode (routes.ts:231), so the two fields are
\* carried by the request and read by no step.
ReceiveBypass(r, sessionId, content, violationId) ==
  /\ req[r].pc = "idle"
  /\ \A q \in Reqs : q < r => req[q].pc # "idle"
  /\ violationId \in 1..Len(violationEvents)
  /\ violationEvents[violationId].category = "non-english"
  /\ violationEvents[violationId].sessionId = sessionId
  /\ violationEvents[violationId].detail = content
  /\ req' = [ req EXCEPT ![r] =
                [ @ EXCEPT !.route = "messages", !.sessionId = sessionId,
                           !.content = content, !.bypassWarning = TRUE,
                           !.violationId = << violationId >>,
                           !.pc = "getSession" ] ]
  /\ UNCHANGED << storeVars, chatSessions, chatMessages, violationEvents >>

\* storage.getChatSession(sessionId); an unknown id is a 404
GetSession(r) ==
  /\ req[r].pc = "getSession"
  /\ \E ok \in BOOLEAN :
       req' = IF ~ok THEN Respond(r, 500)
              ELSE IF req[r].sessionId \notin 1..Len(chatSessions)
                THEN Respond(r, 404)
              ELSE [ req EXCEPT ![r].pc = "checkUsage",
                       ![r].studentEmail =
                         chatSessions[req[r].sessionId].studentEmail ]
  /\ UNCHANGED << storeVars, chatSessions, chatMessages, violationEvents >>

\* the usage check made by the /messages handler only
CheckUsage_MessagesOnly(r) ==
  /\ req[r].pc = "checkUsage"
  /\ \E failAt \in 0..6 :
       LET usageCheck == checkUsageLimits(req[r].studentEmail, failAt)
       IN  req' = IF req[r].route = "messages"
                    THEN [ req EXCEPT ![r] =
                             [ @ EXCEPT !.usageCheck = usageCheck,
                                        !.stages = Append(@, "usage"),
                                        !.pc = IF ~usageCheck.canProceed
                                                 THEN "logRateLimit"
                                                 ELSE "checkContent" ] ]
                    ELSE [ req EXCEPT ![r].pc = "generate" ]
  /\ UNCHANGED << storeVars, chatSessions, chatMessages, violationEvents >>

\* const usageCheck = await checkUsageLimits(session.studentEmail)
CheckUsage(r) ==
  /\ req[r].pc = "checkUsage"
  /\ \E failAt \in 0..6 :
       LET usageCheck == checkUsageLimits(req[r].studentEmail, failAt)
       IN  req' = [ req EXCEPT ![r] =
                      [ @ EXCEPT !.usageCheck = usageCheck,
                                 !.stages = Append(@, "usage"),
                                 !.pc = IF ~usageCheck.canProceed THEN "logRateLimit"
                                        ELSE IF req[r].route = "messages"
                                          THEN "checkContent"
                                        ELSE "generate" ] ]
  /\ UNCHANGED << storeVars, chatSessions, chatMessages, violationEvents >>

\* the usage check denied: store a rate-limit violation event, answer 429
LogRateLimit(r) ==
  /\ req[r].pc = "logRateLimit"
  /\ \E ok \in BOOLEAN :
       IF ok
         THEN /\ violationEvents' =
                   Append(violationEvents,
                          [ studentEmail |-> req[r].studentEmail,
                            sessionId |-> req[r].sessionId,
                            category |-> "rate-limit",
                            detail |-> req[r].usageCheck.reason.template,
                            status |-> "flagged", bypassedAt |-> NoInt ])
              /\ req' = Respond(r, 429)
         ELSE /\ req' = Respond(r, 500)
              /\ UNCHANGED violationEvents
  /\ UNCHANGED << storeVars, chatSessions, chatMessages >>

\* the /messages handler storing the user message before the content check
CheckContent_AfterSave(r) ==
  /\ req[r].pc = "checkContent"
  /\ \E settingsRead \in { getSettings, ReadThrows } :
       LET contentCheck == shouldBlockContent(req[r].content, settingsRead)
       IN  req' = [ req EXCEPT ![r] =
                      [ @ EXCEPT !.contentRead = settingsRead,
                                 !.contentCheck = contentCheck,
                                 !.stages = Append(@, "content"),
                                 !.pc = IF contentCheck.shouldBlock
                                          THEN "logContent" ELSE "getHistory" ] ]
  /\ chatMessages' =
       Append(chatMessages,
              [ sessionId |-> req[r].sessionId, role |-> "user",
                content |-> req[r].content ])
  /\ UNCHANGED << storeVars, chatSessions, violationEvents >>

\* const contentCheck = await shouldBlockContent(content), /messages only;
\* the settings read inside it resolves to the stored row or rejects
CheckContent(r) ==
  /\ req[r].pc = "checkContent"
  /\ \E settingsRead \in { getSettings, ReadThrows } :
       LET contentCheck == shouldBlockContent(req[r].content, settingsRead)
       IN  req' = [ req EXCEPT ![r] =
                      [ @ EXCEPT !.contentRead = settingsRead,
                                 !.contentCheck = contentCheck,
                                 !.stages = Append(@, "content"),
                                 !.pc = IF contentCheck.shouldBlock
                                          THEN "logContent" ELSE "saveUser" ] ]
  /\ UNCHANGED << storeVars, chatSessions, chatMessages, violationEvents >>

\* the policy blocked: logContentViolation (content-filter.ts:224-250)
\* stores a non-english event, or swallows the store's error; answer 403
LogContent(r) ==
  /\ req[r].pc = "logContent"
  /\ \E ok \in BOOLEAN :
       violationEvents' =
         IF ok
           THEN Append(violationEvents,
                       [ studentEmail |-> req[r].studentEmail,
                         sessionId |-> req[r].sessionId,
                         category |-> "non-english",
                         detail |-> req[r].content,
                         status |-> "flagged", bypassedAt |-> NoInt ])
           ELSE violationEvents
  /\ req' = Respond(r, 403)
  /\ UNCHANGED << storeVars, chatSessions, chatMessages >>

\* the /messages handler going on to the model without storing the user
\* message
SaveUserMessage_NotStored(r) ==
  /\ req[r].pc = "saveUser"
  /\ \E ok \in BOOLEAN :
       req' = IF ok THEN [ req EXCEPT ![r].pc = "getHistory" ] ELSE Respond(r, 500)
  /\ UNCHANGED << storeVars, chatSessions, chatMessages, violationEvents >>

\* storage.addChatMessage({ sessionId, role: "user", content }), /messages
SaveUserMessage(r) ==
  /\ req[r].pc = "saveUser"
  /\ \E ok \in BOOLEAN :
       IF ok
         THEN /\ chatMessages' =
                   Append(chatMessages,
                          [ sessionId |-> req[r].sessionId, role |-> "user",
                            content |-> req[r].content ])
              /\ req' = [ req EXCEPT ![r].pc = "getHistory" ]
         ELSE /\ req' = Respond(r, 500)
              /\ UNCHANGED chatMessages
  /\ UNCHANGED << storeVars, chatSessions, violationEvents >>

\* storage.getChatMessages(sessionId), /messages
GetHistory(r) ==
  /\ req[r].pc = "getHistory"
  /\ \E ok \in BOOLEAN :
       req' = IF ok THEN [ req EXCEPT ![r].pc = "generate" ] ELSE Respond(r, 500)
  /\ UNCHANGED << storeVars, chatSessions, chatMessages, violationEvents >>

\* await createCharacterResponse(...): the text-generation collaborator is
\* invoked; it returns a response with its usage, or the call rejects
Generate(r) ==
  /\ req[r].pc = "generate"
  /\ \/ \E usage \in LlmUsages :
          req' = [ req EXCEPT ![r] =
                     [ @ EXCEPT !.usage = usage,
                                !.stages = Append(@, "generate"),
                                !.pc = IF req[r].route = "messages"
                                         THEN "saveAssistant" ELSE "saveAsked" ] ]
     \/ req' = [ req EXCEPT ![r] =
                   [ @ EXCEPT !.stages = Append(@, "generate"),
                              !.pc = "done", !.status = 500 ] ]
  /\ UNCHANGED << storeVars, chatSessions, chatMessages, violationEvents >>

\* /professor-mode stores the question after the answer was generated
SaveAskedMessage(r) ==
  /\ req[r].pc = "saveAsked"
  /\ \E ok \in BOOLEAN :
       IF ok
         THEN /\ chatMessages' =
                   Append(chatMessages,
                          [ sessionId |-> req[r].sessionId, role |-> "user",
                            content |-> "[Asked Professor Chapman]: "
                                          \o req[r].content ])
              /\ req' = [ req EXCEPT ![r].pc = "saveAssistant" ]
         ELSE /\ req' = Respond(r, 500)
              /\ UNCHANGED chatMessages
  /\ UNCHANGED << storeVars, chatSessions, violationEvents >>

\* storage.addChatMessage({ sessionId, role: "assistant", ... })
SaveAssistantMessage(r) ==
  /\ req[r].pc = "saveAssistant"
  /\ \E ok \in BOOLEAN :
       IF ok
         THEN /\ chatMessages' =
                   Append(chatMessages,
                          [ sessionId |-> req[r].sessionId, role |-> "assistant",
                            content |-> "<generated>" ])
              /\ req' = [ req EXCEPT ![r].pc = "trackUsage" ]
         ELSE /\ req' = Respond(r, 500)
              /\ UNCHANGED chatMessages
  /\ UNCHANGED << storeVars, chatSessions, violationEvents >>

\* storage.addUsageStats({ ..., tokensUsed: usage.total_tokens, cost }),
\* then the 200 response
TrackUsage(r) ==
  /\ req[r].pc = "trackUsage"
  /\ \E ok \in BOOLEAN :
       IF ok
         THEN /\ usageStats' =
                   Append(usageStats,
                          [ studentEmail |-> req[r].studentEmail,
                            tokensUsed |-> req[r].usage.total_tokens,
                            cost |-> << calculateCost(req[r].usage) >>,
                            timestamp |-> now ])
              /\ req' = Respond(r, 200)
         ELSE /\ req' = Respond(r, 500)
              /\ UNCHANGED usageStats
  /\ UNCHANGED << students, settings, now, chatSessions, chatMessages,
                  violationEvents >>

(***************************************************************************)
(* Admin authentication, admin-auth (src/unnamed/part_003) over the        *)
(* admin_tokens table.  Time is counted in quarters of an hour.            *)
(***************************************************************************)
MAX_LOGIN_ATTEMPTS == 5

\* 15 * 60 * 1000 ms
LOCKOUT_DURATION == 1

\* 24 * 60 * 60 * 1000 ms
TokenLifetime == 96

ADMIN_PASSWORD == "ChapmanEnglish2024!"

\* req.ip of the clients
IPs == { "10.0.0.1", "10.0.0.2" }

\* req.body.password: right (with a trailing blank), wrong, missing
Passwords == { ADMIN_PASSWORD \o " ", "guess", "" }

\* no admin request answered yet
NoResponse ==
  [ op |-> "none", ip |-> Null, token |-> NoInt, status |-> 0,
    examined |-> FALSE, correct |-> FALSE ]

\* checkRateLimit with count > MAX_LOGIN_ATTEMPTS as its test
checkRateLimit_OffByOne(ip) ==
  LET attempts == loginAttempts[ip]
      first == [ count |-> 1, lastAttempt |-> now ]
  IN  IF attempts = << >>
        THEN [ allowed |-> TRUE, map |-> [ loginAttempts EXCEPT ![ip] = << first >> ] ]
      ELSE IF now - attempts[1].lastAttempt > LOCKOUT_DURATION
        THEN [ allowed |-> TRUE, map |-> [ loginAttempts EXCEPT ![ip] = << first >> ] ]
      ELSE IF attempts[1].count > MAX_LOGIN_ATTEMPTS
        THEN [ allowed |-> FALSE, map |-> loginAttempts ]
      ELSE [ allowed |-> TRUE,
             map |-> [ loginAttempts EXCEPT
                         ![ip] = << [ count |-> attempts[1].count + 1,
                                      lastAttempt |-> now ] >> ] ]

\* checkRateLimit with a rejected attempt restarting the lockout window
checkRateLimit_Sliding(ip) ==
  LET attempts == loginAttempts[ip]
      first == [ count |-> 1, lastAttempt |-> now ]
  IN  IF attempts = << >>
        THEN [ allowed |-> TRUE, map |-> [ loginAttempts EXCEPT ![ip] = << first >> ] ]
      ELSE IF now - attempts[1].lastAttempt > LOCKOUT_DURATION
        THEN [ allowed |-> TRUE, map |-> [ loginAttempts EXCEPT ![ip] = << first >> ] ]
      ELSE IF attempts[1].count >= MAX_LOGIN_ATTEMPTS
        THEN [ allowed |-> FALSE,
               map |-> [ loginAttempts EXCEPT ![ip][1].lastAttempt = now ] ]
      ELSE [ allowed |-> TRUE,
             map |-> [ loginAttempts EXCEPT
                         ![ip] = << [ count |-> attempts[1].count + 1,
                                      lastAttempt |-> now ] >> ] ]

\* checkRateLimit(ip): its result and the loginAttempts map it leaves
checkRateLimit(ip) ==
  LET attempts == loginAttempts[ip]
      first == [ count |-> 1, lastAttempt |-> now ]
  IN  IF attempts = << >>
        THEN [ allowed |-> TRUE, map |-> [ loginAttempts EXCEPT ![ip] = << first >> ] ]
      ELSE IF now - attempts[1].lastAttempt > LOCKOUT_DURATION
        THEN [ allowed |-> TRUE, map |-> [ loginAttempts EXCEPT ![ip] = << first >> ] ]
      ELSE IF attempts[1].count >= MAX_LOGIN_ATTEMPTS
        THEN [ allowed |-> FALSE, map |-> loginAttempts ]
      ELSE [ allowed |-> TRUE,
             map |-> [ loginAttempts EXCEPT
                         ![ip] = << [ count |-> attempts[1].count + 1,
                                      lastAttempt |-> now ] >> ] ]

\* !trimmedPassword || trimmedPassword !== ADMIN_PASSWORD, negated
PasswordMatches(password) ==
  Trim(password) # "" /\ Trim(password) = ADMIN_PASSWORD

\* getAdminToken without the expiry condition
getAdminToken_NoExpiry(token) ==
  { row \in adminTokens : row.token = token }

\* storage.getAdminToken(token): rows with that token and expiresAt >= now
getAdminToken(token) ==
  { row \in adminTokens : row.token = token /\ row.expiresAt >= now }

\* storage.deleteAdminToken(token)
deleteAdminToken(token) == { row \in adminTokens : row.token # token }

\* storage.cleanupExpiredTokens(): delete where expiresAt <= now
ExpiredTokensRemoved == { row \in adminTokens : ~(row.expiresAt <= now) }

(***************************************************************************)
(* Idle parts of the state.                                                *)
(***************************************************************************)
UsageIdle == uCall = Null /\ uFailAt = 0 /\ uResult = NoResult

FilterIdle ==
  /\ fText = ""
  /\ fCall = Null
  /\ fLocals = NoResult
  /\ fSettingsRead = ReadNone
  /\ fResult = NoResult

ServerIdle ==
  /\ chatSessions = << >>
  /\ chatMessages = << >>
  /\ violationEvents = << >>
  /\ req = [ r \in Reqs |-> IdleRequest ]

AdminIdle ==
  /\ loginAttempts = [ ip \in IPs |-> << >> ]
  /\ adminTokens = { }
  /\ issued = 0
  /\ aResp = NoResponse

StoreEmpty ==
  /\ students = [ e \in Emails |-> ReadNone ]
  /\ settings = ReadNone
  /\ usageStats = << >>
  /\ now = 0

(***************************************************************************)
(* Inputs of the classifier runs: a question is a concatenation of at most *)
(* MaxFragments phrases.                                                   *)
(***************************************************************************)
MaxFragments == 3

Fragments ==
  { "Explain ", "list ", " ", "pi ", "variable ", "DNA RNA gene ",
    "photosynthesis ", "romance " }

RECURSIVE Concat(_)
Concat(fs) == IF fs = << >> THEN "" ELSE Head(fs) \o Concat(Tail(fs))

\* the worked questions of the specification's examples
ExampleTexts ==
  { "What is the derivative of x^2?",
    "Why did Westley fake his own death to fool Vizzini?",
    "Explain photosynthesis and cell biology" }

\* questions whose largest category counts tie without math among them
CategoryTexts == { "electrical", "civil code", "electrical code" }

\* questions that name six keywords of one category, with and without a
\* direct-question opener
KeywordRichTexts ==
  { "Explain DNA RNA gene enzyme virus atom", "DNA RNA gene enzyme virus atom" }

Texts ==
  { Concat(fs) : fs \in UNION { [ 1..n -> Fragments ] : n \in 0..MaxFragments } }
    \cup ExampleTexts \cup CategoryTexts \cup KeywordRichTexts

ContentFilterModes == { "normal", "strict" }

\* the settings rows the store can hold, as far as the filter reads them
FilterSettingsReads ==
  { ReadThrows, ReadNone }
    \cup { ReadRow([ contentFilterMode |-> m ]) : m \in ContentFilterModes }

InitFilter ==
  /\ fText \in Texts
  /\ fCall = Null
  /\ fLocals = NoResult
  /\ fSettingsRead = ReadNone
  /\ fResult = NoResult
  /\ StoreEmpty
  /\ ServerIdle
  /\ UsageIdle
  /\ AdminIdle

\* a caller runs the classifier on the question
CallCheckContentFilter ==
  /\ fCall = Null
  /\ fCall' = "checkContentFilter"
  /\ LET m == Match(fText)
     IN  /\ fLocals' = m
         /\ fResult' = Classify(m.scores, m.isHomeworkPattern, m.detectedKeywords)
  /\ UNCHANGED << fText, fSettingsRead, storeVars, serverVars, usageVars, adminVars >>

\* a caller runs the blocking policy; the settings read has one of its outcomes
CallShouldBlockContent ==
  /\ fCall = Null
  /\ fCall' = "shouldBlockContent"
  /\ fLocals' = Match(fText)
  /\ \E sr \in FilterSettingsReads :
       /\ fSettingsRead' = sr
       /\ fResult' = shouldBlockContent(fText, sr)
  /\ UNCHANGED << fText, storeVars, serverVars, usageVars, adminVars >>

NextFilter == CallCheckContentFilter \/ CallShouldBlockContent

SpecFilter == InitFilter /\ [][NextFilter]_vars

(***************************************************************************)
(* Runs of checkUsageLimits on a store drawn from the states the store     *)
(* can be in (SpecUsage).                                                  *)
(***************************************************************************)
MaxLedger == 2

DailyTokenLimits == { NoInt, << 0 >>, << 1000 >> }
MonthlyCostLimits == { Null, "0", "0.004" }

StudentRows ==
  [ isActive : BOOLEAN, dailyTokenLimit : DailyTokenLimits,
    monthlyCostLimit : MonthlyCostLimits ]

UsageSettingsRows ==
  [ globalDailyTokenLimit : DailyTokenLimits,
    globalMonthlyCostLimit : MonthlyCostLimits,
    contentFilterMode : { "normal" } ]

\* the clock of the runs: the last tick of the second month
UsageNow == 2 * TicksPerDay * DaysPerMonth - 1

\* timestamps of the rows: last month, earlier this month, today
UsageTimes ==
  { UsageNow - TicksPerDay * DaysPerMonth, UsageNow - TicksPerDay, UsageNow }

\* tokens and cost of a row; 0.0020 dollar is 20 units
UsageAmounts ==
  { [ tokensUsed |-> 499, cost |-> << 19 >> ],
    [ tokensUsed |-> 500, cost |-> << 20 >> ] }

UsageRows ==
  { [ studentEmail |-> e, tokensUsed |-> a.tokensUsed, cost |-> a.cost,
      timestamp |-> t ] : e \in Emails, a \in UsageAmounts, t \in UsageTimes }

\* the table is append-only and stamped on insertion: timestamps ascend
Ledgers ==
  { l \in UNION { [ 1..n -> UsageRows ] : n \in 0..MaxLedger } :
      \A i \in 1..(Len(l) - 1) : l[i].timestamp <= l[i + 1].timestamp }

\* the student whose limits are checked, and a classmate without limits
CheckedStudent == "s1@school.edu"

Unlimited == [ isActive |-> TRUE, dailyTokenLimit |-> NoInt, monthlyCostLimit |-> Null ]

InitUsage ==
  /\ \E s \in { ReadNone } \cup { ReadRow(r) : r \in StudentRows } :
       students = [ e \in Emails |->
                      IF e = CheckedStudent THEN s ELSE ReadRow(Unlimited) ]
  /\ settings \in { ReadNone } \cup { ReadRow(r) : r \in UsageSettingsRows }
  /\ usageStats \in Ledgers
  /\ now = UsageNow
  /\ ServerIdle
  /\ UsageIdle
  /\ FilterIdle
  /\ AdminIdle

\* a request handler calls checkUsageLimits(CheckedStudent); any one of the
\* six reads may reject
CallCheckUsageLimits ==
  /\ uCall = Null
  /\ uCall' = "checkUsageLimits"
  /\ \E failAt \in 0..6 :
       /\ uFailAt' = failAt
       /\ uResult' = checkUsageLimits(CheckedStudent, failAt)
  /\ UNCHANGED << storeVars, serverVars, filterVars, adminVars >>

NextUsage == CallCheckUsageLimits

SpecUsage == InitUsage /\ [][NextUsage]_vars

(***************************************************************************)
(* The server (Spec): requests arrive on sessions of a whitelisted         *)
(* student while the store holds one of the configurations an admin can    *)
(* have set up.                                                            *)
(***************************************************************************)
MaxSessionId == 2

\* the questions students send: a direct math question (violation, 0.85),
\* three science terms (violation, 0.6), a literature question (allowed);
\* "" stands for a missing content / question
Contents == { "What is pi?", "DNA RNA gene", "Why did Westley die?", "" }

ServerStudentRows ==
  [ isActive : BOOLEAN, dailyTokenLimit : { NoInt, << 500 >> },
    monthlyCostLimit : { Null } ]

ServerSettingsReads ==
  { ReadNone }
    \cup { ReadRow([ globalDailyTokenLimit |-> NoInt,
                     globalMonthlyCostLimit |-> Null,
                     contentFilterMode |-> m ]) : m \in ContentFilterModes }

\* the usage_stats table at start: empty, or one earlier answer of today
ServerLedgers ==
  { << >>,
    << [ studentEmail |-> CheckedStudent, tokensUsed |-> 500, cost |-> << 20 >>,
         timestamp |-> 0 ] >> }

\* the violation_events table that goes with it: empty, or the event of an
\* earlier question of session 1 that was blocked
ServerEvents(ledger) ==
  IF ledger = << >> THEN << >>
  ELSE << [ studentEmail |-> CheckedStudent, sessionId |-> 1,
            category |-> "non-english", detail |-> "DNA RNA gene",
            status |-> "flagged", bypassedAt |-> NoInt ] >>

Init ==
  /\ \E row \in ServerStudentRows :
       students = [ e \in Emails |->
                      IF e = CheckedStudent THEN ReadRow(row) ELSE ReadNone ]
  /\ settings \in ServerSettingsReads
  /\ usageStats \in ServerLedgers
  /\ now = 0
  /\ chatSessions = << [ studentEmail |-> CheckedStudent ] >>
  /\ chatMessages = << >>
  /\ violationEvents = ServerEvents(usageStats)
  /\ req = [ r \in Reqs |-> IdleRequest ]
  /\ UsageIdle
  /\ FilterIdle
  /\ AdminIdle

Next ==
  \/ \E r \in Reqs :
       \/ \E route \in Routes, sessionId \in 1..MaxSessionId, content \in Contents :
            Receive(r, route, sessionId, content) /\ UNCHANGED << filterVars, usageVars, adminVars >>
       \/ \E sessionId \in 1..MaxSessionId, content \in Contents,
               violationId \in 1..Len(violationEvents) :
            ReceiveBypass(r, sessionId, content, violationId)
              /\ UNCHANGED << filterVars, usageVars, adminVars >>
       \/ GetSession(r) /\ UNCHANGED << filterVars, usageVars, adminVars >>
       \/ CheckUsage(r) /\ UNCHANGED << filterVars, usageVars, adminVars >>
       \/ LogRateLimit(r) /\ UNCHANGED << filterVars, usageVars, adminVars >>
       \/ CheckContent(r) /\ UNCHANGED << filterVars, usageVars, adminVars >>
       \/ LogContent(r) /\ UNCHANGED << filterVars, usageVars, adminVars >>
       \/ SaveUserMessage(r) /\ UNCHANGED << filterVars, usageVars, adminVars >>
       \/ GetHistory(r) /\ UNCHANGED << filterVars, usageVars, adminVars >>
       \/ Generate(r) /\ UNCHANGED << filterVars, usageVars, adminVars >>
       \/ SaveAskedMessage(r) /\ UNCHANGED << filterVars, usageVars, adminVars >>
       \/ SaveAssistantMessage(r) /\ UNCHANGED << filterVars, usageVars, adminVars >>
       \/ TrackUsage(r) /\ UNCHANGED << filterVars, usageVars, adminVars >>

Spec == Init /\ [][Next]_vars

(***************************************************************************)
(* Properties of the classifier and the blocking policy (SpecFilter).      *)
(***************************************************************************)

\* C1: for every text, (isViolation, confidence) of checkContentFilter is
\* the outcome of the ladder (a)..(g) on (totalNonLit, totalLit,
\* isHomeworkPattern), first match winning, and rule (g) is reached only
\* with totalNonLit = 0.
C1_Ladder ==
  fCall = "checkContentFilter" =>
    LET sc     == fLocals.scores
        nonLit == sc.math + sc.science + sc.technology + sc.other
        lit    == sc.literature
        hw     == fLocals.isHomeworkPattern
        a == nonLit >= 1 /\ hw /\ lit = 0
        b == lit >= 3 /\ nonLit <= 2
        c == lit > 0 /\ nonLit <= 2
        d == nonLit >= 3
        e == nonLit = 2
        f == nonLit = 1 /\ ~hw
        expected ==
          CASE a -> << TRUE, 85 >>
            [] ~a /\ b -> << FALSE, 90 >>
            [] ~a /\ ~b /\ c -> << FALSE, 80 >>
            [] ~a /\ ~b /\ ~c /\ d ->
                 << TRUE, IF nonLit * 20 < 95 THEN nonLit * 20 ELSE 95 >>
            [] ~a /\ ~b /\ ~c /\ ~d /\ e -> << TRUE, 70 >>
            [] ~a /\ ~b /\ ~c /\ ~d /\ ~e /\ f -> << FALSE, 60 >>
            [] OTHER -> << FALSE, 95 >>
    IN  /\ << fResult.isViolation, fResult.confidence >> = expected
        /\ (~a /\ ~b /\ ~c /\ ~d /\ ~e /\ ~f) => nonLit = 0

\* C1 witness: a question with literature context and at least five
\* off-topic hits is classified by rule (d) at the 0.95 cap
C1_Witness ==
  /\ fCall = "checkContentFilter"
  /\ fLocals.scores.literature > 0
  /\ fLocals.scores.math + fLocals.scores.science
       + fLocals.scores.technology + fLocals.scores.other >= 5
  /\ fResult.isViolation
  /\ fResult.confidence = 95

\* C2: with the settings read, shouldBlockContent blocks exactly when the
\* classification is a violation and (the mode is strict or the confidence
\* is at least 0.7); absent settings count as normal mode.
C2_BlockPolicy ==
  (fCall = "shouldBlockContent" /\ fSettingsRead.status # "throws") =>
    LET mode == IF fSettingsRead.status = "none" THEN "normal"
                ELSE fSettingsRead.row.contentFilterMode
        fr   == fResult.filterResult
    IN  fResult.shouldBlock
          <=> (fr.isViolation /\ (mode = "strict" \/ fr.confidence >= 70))

\* C2 witness: a violation of confidence exactly 0.7 is blocked with no
\* settings row stored (normal mode)
C2_Witness ==
  /\ fCall = "shouldBlockContent"
  /\ fSettingsRead.status = "none"
  /\ fResult.filterResult.isViolation
  /\ fResult.filterResult.confidence = 70
  /\ fResult.shouldBlock

\* C9 as stated: every text with n >= 3 off-topic hits and no literature
\* hit is a violation of confidence min(0.95, n/5).
C9_Original ==
  fCall = "checkContentFilter" =>
    LET sc == fLocals.scores
        n  == sc.math + sc.science + sc.technology + sc.other
    IN  (n >= 3 /\ sc.literature = 0) =>
          /\ fResult.isViolation
          /\ fResult.confidence = (IF n * 20 < 95 THEN n * 20 ELSE 95)

\* C9 amended: every text with n >= 3 off-topic hits and no literature hit
\* is a violation; its confidence is min(0.95, n/5) when the text does not
\* start with a direct-question opener, and 0.85 when it does.
C9_Amended ==
  fCall = "checkContentFilter" =>
    LET sc == fLocals.scores
        n  == sc.math + sc.science + sc.technology + sc.other
    IN  (n >= 3 /\ sc.literature = 0) =>
          /\ fResult.isViolation
          /\ fResult.confidence =
               (IF fLocals.isHomeworkPattern THEN 85
                ELSE IF n * 20 < 95 THEN n * 20 ELSE 95)

\* C9 witness: four off-topic hits, no literature hit, no opener: 0.8
C9_Witness ==
  /\ fCall = "checkContentFilter"
  /\ fLocals.scores.literature = 0
  /\ ~fLocals.isHomeworkPattern
  /\ fLocals.scores.math + fLocals.scores.science
       + fLocals.scores.technology + fLocals.scores.other = 4
  /\ fResult.isViolation
  /\ fResult.confidence = 80

\* C10: a text with no keyword of any list (the empty and the blank text
\* included) is not a violation, confidence 0.95, with or without a
\* direct-question opener.
C10_NoKeywords ==
  fCall = "checkContentFilter" =>
    LET sc == fLocals.scores
    IN  (sc.math = 0 /\ sc.science = 0 /\ sc.technology = 0 /\ sc.other = 0
           /\ sc.literature = 0) =>
          (~fResult.isViolation /\ fResult.confidence = 95)

\* C10 witness: a keyword-free question that starts with an opener
C10_Witness ==
  /\ fCall = "checkContentFilter"
  /\ fLocals.isHomeworkPattern
  /\ fLocals.scores = [ math |-> 0, science |-> 0, technology |-> 0,
                        other |-> 0, literature |-> 0 ]
  /\ ~fResult.isViolation
  /\ fResult.confidence = 95

(***************************************************************************)
(* Properties of the usage accounting (SpecUsage).  A ceiling is violated  *)
(* when its limit is stored (not NULL) and the usage of its window is at   *)
(* least the limit.                                                        *)
(***************************************************************************)

\* C3 as stated: for an active student the reason is that of the first
\* violated ceiling in the order student daily tokens, student monthly
\* cost, global daily tokens, global monthly cost, and canProceed is true
\* only when none of the four is violated.
C3_Original ==
  (/\ uCall = "checkUsageLimits"
   /\ uFailAt = 0
   /\ students[CheckedStudent].status = "ok"
   /\ students[CheckedStudent].row.isActive) =>
    LET row == students[CheckedStudent].row
        gDaily == IF settings.status = "ok"
                    THEN settings.row.globalDailyTokenLimit ELSE NoInt
        gCost  == IF settings.status = "ok"
                    THEN settings.row.globalMonthlyCostLimit ELSE Null
        v1 == row.dailyTokenLimit # NoInt
                /\ getUsageByStudent(CheckedStudent, "day").totalTokens
                     >= row.dailyTokenLimit[1]
        v2 == row.monthlyCostLimit # Null
                /\ getUsageByStudent(CheckedStudent, "month").totalCost
                     >= parseFloat(row.monthlyCostLimit)[1]
        v3 == gDaily # NoInt
                /\ getGlobalUsage("day").totalTokens >= gDaily[1]
        v4 == gCost # Null
                /\ getGlobalUsage("month").totalCost >= parseFloat(gCost)[1]
        first == CASE v1 -> "Daily token limit reached"
                   [] ~v1 /\ v2 -> "Monthly cost limit reached"
                   [] ~v1 /\ ~v2 /\ v3 -> "Global daily token limit reached"
                   [] ~v1 /\ ~v2 /\ ~v3 /\ v4 -> "Global monthly cost limit reached"
                   [] OTHER -> Null
    IN  /\ uResult.reason.template = first
        /\ uResult.canProceed <=> ~(v1 \/ v2 \/ v3 \/ v4)

\* C4 as stated: for an active student with dailyTokenLimit = L, a ledger
\* summing to exactly L tokens today is denied with the daily-limit reason,
\* and one summing to L - 1 (no other ceiling violated) may proceed.
C4_Original ==
  (/\ uCall = "checkUsageLimits"
   /\ uFailAt = 0
   /\ students[CheckedStudent].status = "ok"
   /\ students[CheckedStudent].row.isActive
   /\ students[CheckedStudent].row.dailyTokenLimit # NoInt) =>
    LET row == students[CheckedStudent].row
        L == row.dailyTokenLimit[1]
        today == getUsageByStudent(CheckedStudent, "day").totalTokens
        gDaily == IF settings.status = "ok"
                    THEN settings.row.globalDailyTokenLimit ELSE NoInt
        gCost  == IF settings.status = "ok"
                    THEN settings.row.globalMonthlyCostLimit ELSE Null
        others ==
          \/ row.monthlyCostLimit # Null
               /\ getUsageByStudent(CheckedStudent, "month").totalCost
                    >= parseFloat(row.monthlyCostLimit)[1]
          \/ gDaily # NoInt /\ getGlobalUsage("day").totalTokens >= gDaily[1]
          \/ gCost # Null
               /\ getGlobalUsage("month").totalCost >= parseFloat(gCost)[1]
    IN  /\ today = L =>
             (/\ ~uResult.canProceed
              /\ uResult.reason.template = "Daily token limit reached")
        /\ (today = L - 1 /\ ~others) => uResult.canProceed

\* C5: when a storage read of checkUsageLimits rejects, the call returns
\* canProceed = false with the "Unable to verify usage limits" reason; it
\* always returns an object, and never canProceed = true once a read failed.
C5_FailClosed ==
  uCall = "checkUsageLimits" =>
    /\ uResult.canProceed \in BOOLEAN
    /\ uFailAt # 0 => ~uResult.canProceed
    /\ (\/ uFailAt = 1
        \/ /\ uFailAt \in 2..6
           /\ students[CheckedStudent].status = "ok"
           /\ students[CheckedStudent].row.isActive) =>
         /\ ~uResult.canProceed
         /\ uResult.reason.template = "Unable to verify usage limits"
         /\ uResult.limitsInfo = NoLimitsInfo

\* C5 witness: the global monthly read rejects for an active student
\* whose stored usage is below every limit
C5_Witness ==
  /\ uCall = "checkUsageLimits"
  /\ uFailAt = 6
  /\ students[CheckedStudent].status = "ok"
  /\ students[CheckedStudent].row.isActive
  /\ usageStats = << >>
  /\ students[CheckedStudent].row.dailyTokenLimit = << 1000 >>
  /\ ~uResult.canProceed
  /\ uResult.reason.template = "Unable to verify usage limits"

\* C6: when the student lookup returns no row or an inactive one, the call
\* returns canProceed = false with "Student not found or inactive" and
\* zeroed limitsInfo, whatever the ledger and the limits are and whatever a
\* later read would have done.
C6_NotFoundOrInactive ==
  (/\ uCall = "checkUsageLimits"
   /\ uFailAt # 1
   /\ \/ students[CheckedStudent].status = "none"
      \/ ~students[CheckedStudent].row.isActive) =>
    uResult = [ canProceed |-> FALSE,
                reason |-> [ template |-> "Student not found or inactive",
                             tokens |-> NoInt, dollars |-> Null ],
                limitsInfo |-> NoLimitsInfo ]

\* C6 witness: a deactivated student over the daily limit, with the
\* settings read about to reject, gets the not-found-or-inactive answer
C6_Witness ==
  /\ uCall = "checkUsageLimits"
  /\ uFailAt = 2
  /\ students[CheckedStudent].status = "ok"
  /\ ~students[CheckedStudent].row.isActive
  /\ students[CheckedStudent].row.dailyTokenLimit = << 1000 >>
  /\ getUsageByStudent(CheckedStudent, "day").totalTokens >= 1000
  /\ uResult.reason.template = "Student not found or inactive"

(***************************************************************************)
(* Properties of the request handlers (Spec).                              *)
(***************************************************************************)

\* C7 as stated: on both routes a request reaches the text-generation
\* collaborator only after the usage check and then the content policy,
\* with canProceed = true and shouldBlock = false for that request.
C7_Original ==
  \A r \in Reqs :
    (\E i \in 1..Len(req[r].stages) : req[r].stages[i] = "generate") =>
      /\ req[r].stages = << "usage", "content", "generate" >>
      /\ req[r].usageCheck.canProceed
      /\ req[r].contentCheck # NoResult
      /\ ~req[r].contentCheck.shouldBlock

\* C8: when the settings read inside shouldBlockContent rejects, the
\* request is not blocked whatever its text is: shouldBlock is false, no
\* 403 is sent and no block is logged, and the handler continues to the
\* text-generation collaborator; only a rejected store call on the way
\* (a 500 response) ends it earlier.
C8_FailOpen ==
  \A r \in Reqs :
    req[r].contentRead.status = "throws" =>
      /\ ~req[r].contentCheck.shouldBlock
      /\ req[r].pc \in { "saveUser", "getHistory", "generate", "saveAssistant",
                         "trackUsage", "done" }
      /\ req[r].status \in { 0, 200, 500 }
      /\ (req[r].pc \in { "saveAssistant", "trackUsage" } \/ req[r].status = 200) =>
           req[r].stages = << "usage", "content", "generate" >>

\* C8 witness: a direct math question (violation, confidence 0.85) whose
\* settings read rejected was answered by the collaborator
C8_Witness ==
  \E r \in Reqs :
    /\ req[r].contentRead.status = "throws"
    /\ req[r].contentCheck.filterResult.isViolation
    /\ req[r].contentCheck.filterResult.confidence >= 70
    /\ req[r].stages = << "usage", "content", "generate" >>
    /\ req[r].status = 200

(***************************************************************************)
(* Properties of the reported category and of the ladder as a function of  *)
(* the literature count (SpecFilter).                                      *)
(***************************************************************************)

\* C11: in every violation result the category is an off-topic category
\* whose count is the maximum, and no category earlier in the order math,
\* science, technology, other has the same count; so the category is a
\* function of the counts.
C11_CategoryPrecedence ==
  (fCall = "checkContentFilter" /\ fResult.isViolation) =>
    LET sc == fLocals.scores
        order == << "math", "science", "technology", "other" >>
    IN  \E i \in 1..4 :
          /\ fResult.category = order[i]
          /\ \A j \in 1..4 : sc[order[j]] <= sc[order[i]]
          /\ \A j \in 1..(i - 1) : sc[order[j]] < sc[order[i]]

\* C11 witness: science, technology and other tie for the maximum above
\* math, and science is reported
C11_Witness ==
  /\ fCall = "checkContentFilter"
  /\ fResult.isViolation
  /\ fLocals.scores.math < fLocals.scores.science
  /\ fLocals.scores.science = fLocals.scores.technology
  /\ fLocals.scores.science = fLocals.scores.other
  /\ fResult.category = "science"

\* C12 as stated: with the off-topic counts and the opener flag fixed, one
\* more literature keyword never turns a not-violation into a violation and
\* never lowers the confidence of a not-violation.
C12_Original ==
  (fCall = "checkContentFilter" /\ ~fResult.isViolation) =>
    LET more == Classify([ fLocals.scores EXCEPT !.literature = @ + 1 ],
                         fLocals.isHomeworkPattern, fLocals.detectedKeywords)
    IN  /\ ~more.isViolation
        /\ more.confidence >= fResult.confidence

\* C12 amended: with the off-topic counts and the opener flag fixed, one
\* more literature keyword never turns a not-violation into a violation; it
\* never lowers the confidence of a not-violation, except that a text with
\* no keyword at all drops from 0.95 to 0.8 with its first literature
\* keyword.
C12_Amended ==
  (fCall = "checkContentFilter" /\ ~fResult.isViolation) =>
    LET sc   == fLocals.scores
        none == sc.math + sc.science + sc.technology + sc.other = 0
                  /\ sc.literature = 0
        more == Classify([ sc EXCEPT !.literature = @ + 1 ],
                         fLocals.isHomeworkPattern, fLocals.detectedKeywords)
    IN  /\ ~more.isViolation
        /\ ~none => more.confidence >= fResult.confidence
        /\ none => (fResult.confidence = 95 /\ more.confidence = 80)

\* C12 witness: two literature keywords beside one off-topic keyword are
\* allowed at 0.8, and a third one raises the confidence to 0.9
C12_Witness ==
  /\ fCall = "checkContentFilter"
  /\ fLocals.scores.literature = 2
  /\ fLocals.scores.math + fLocals.scores.science
       + fLocals.scores.technology + fLocals.scores.other = 1
  /\ ~fResult.isViolation
  /\ fResult.confidence = 80
  /\ Classify([ fLocals.scores EXCEPT !.literature = 3 ],
              fLocals.isHomeworkPattern, fLocals.detectedKeywords).confidence = 90

(***************************************************************************)
(* Zero limits (SpecUsage).                                                *)
(***************************************************************************)

\* C13 as stated: for an active student and each of the four limits, a
\* stored (non-null) limit L >= 0 with the usage of its window at least L
\* makes checkUsageLimits deny, for every stored L, 0 and "0" included.
C13_Original ==
  (/\ uCall = "checkUsageLimits"
   /\ uFailAt = 0
   /\ students[CheckedStudent].status = "ok"
   /\ students[CheckedStudent].row.isActive) =>
    LET row == students[CheckedStudent].row
        gDaily == IF settings.status = "ok"
                    THEN settings.row.globalDailyTokenLimit ELSE NoInt
        gCost  == IF settings.status = "ok"
                    THEN settings.row.globalMonthlyCostLimit ELSE Null
    IN  /\ (row.dailyTokenLimit # NoInt
              /\ getUsageByStudent(CheckedStudent, "day").totalTokens
                   >= row.dailyTokenLimit[1]) => ~uResult.canProceed
        /\ (row.monthlyCostLimit # Null
              /\ getUsageByStudent(CheckedStudent, "month").totalCost
                   >= parseFloat(row.monthlyCostLimit)[1]) => ~uResult.canProceed
        /\ (gDaily # NoInt /\ getGlobalUsage("day").totalTokens >= gDaily[1])
             => ~uResult.canProceed
        /\ (gCost # Null
              /\ getGlobalUsage("month").totalCost >= parseFloat(gCost)[1])
             => ~uResult.canProceed

(***************************************************************************)
(* The usage ledger and the violation events of the handlers (Spec).       *)
(***************************************************************************)

\* C14 as stated: on both routes a handler that received a response from
\* the text-generation collaborator finishes only by the ledger step, and
\* a finished one has appended exactly one usage_stats row for the
\* session's student with the response's total_tokens and cost, whatever
\* the chat-message writes in between did.
C14_Original ==
  [][ \A r \in Reqs :
        (/\ req[r].usage # NoResult
         /\ req[r].pc # "done"
         /\ req'[r].pc = "done") =>
          /\ req[r].pc = "trackUsage"
          /\ req'[r].status = 200 =>
               usageStats' =
                 Append(usageStats,
                        [ studentEmail |-> chatSessions[req[r].sessionId].studentEmail,
                          tokensUsed |-> req[r].usage.total_tokens,
                          cost |-> << calculateCost(req[r].usage) >>,
                          timestamp |-> now ]) ]_vars

\* C15 as stated: a handler sends 429 or 403 only in a step that has
\* stored exactly one violation event for the session's student, status
\* 'flagged', category 'rate-limit' for a 429 and 'non-english' for a 403.
C15_Original ==
  [][ \A r \in Reqs :
        (req[r].status = 0 /\ req'[r].status \in { 429, 403 }) =>
          /\ Len(violationEvents') = Len(violationEvents) + 1
          /\ SubSeq(violationEvents', 1, Len(violationEvents)) = violationEvents
          /\ LET event == violationEvents'[Len(violationEvents')]
             IN  /\ event.studentEmail = chatSessions[req[r].sessionId].studentEmail
                 /\ event.status = "flagged"
                 /\ event.category = IF req'[r].status = 429 THEN "rate-limit"
                                     ELSE "non-english" ]_vars

\* C16 as stated: a "proceed anyway" request (bypassWarning = true with
\* the violationId of the stored event of that question) that passed the
\* usage check and was answered has updated that event to status
\* 'proceeded' with bypassedAt set.
C16_Original ==
  \A r \in Reqs :
    (/\ req[r].bypassWarning
     /\ req[r].pc = "done"
     /\ req[r].status \in { 200, 403 }) =>
      LET event == violationEvents[req[r].violationId[1]]
      IN  /\ event.status = "proceeded"
          /\ event.bypassedAt # NoInt

(***************************************************************************)
(* Concurrent message requests of one student (SpecConcurrent): the        *)
(* handlers of POST .../messages interleave at their awaits.  The store    *)
(* and the collaborator answer every call, and the question is on topic.   *)
(***************************************************************************)
MaxInFlight == 2

InFlight == 1..MaxInFlight

\* dailyTokenLimit of the student; every answer costs 500 tokens
ConcurrentLimits == { << 0 >>, << 500 >>, << 1000 >> }

InitConcurrent ==
  /\ \E limit \in ConcurrentLimits :
       students = [ e \in Emails |->
                      IF e = CheckedStudent
                        THEN ReadRow([ isActive |-> TRUE, dailyTokenLimit |-> limit,
                                       monthlyCostLimit |-> Null ])
                        ELSE ReadNone ]
  /\ settings = ReadNone
  /\ usageStats = << >>
  /\ now = 0
  /\ chatSessions = << [ studentEmail |-> CheckedStudent ] >>
  /\ chatMessages = << >>
  /\ violationEvents = << >>
  /\ req = [ r \in InFlight |-> IdleRequest ]
  /\ UsageIdle
  /\ FilterIdle
  /\ AdminIdle

\* no awaited call of the step rejected
Answered ==
  \A r \in InFlight :
    /\ req[r].status # 500
    /\ req[r].contentRead # ReadThrows
    /\ \/ req[r].usageCheck = NoResult
       \/ req[r].usageCheck.reason.template # "Unable to verify usage limits"

NextConcurrent ==
  \E r \in InFlight :
    /\ \/ Receive(r, "messages", 1, "Why did Westley die?")
       \/ GetSession(r)
       \/ CheckUsage(r)
       \/ LogRateLimit(r)
       \/ CheckContent(r)
       \/ SaveUserMessage(r)
       \/ GetHistory(r)
       \/ Generate(r)
       \/ SaveAssistantMessage(r)
       \/ TrackUsage(r)
    /\ Answered'
    /\ UNCHANGED << filterVars, usageVars, adminVars >>

SpecConcurrent == InitConcurrent /\ [][NextConcurrent]_vars

\* the student's recorded total of today and the limit
DailyTotal == getUsageByStudent(CheckedStudent, "day").totalTokens

DailyLimit == students[CheckedStudent].row.dailyTokenLimit[1]

\* C17 as stated: every admitted request observed a daily total strictly
\* below dailyTokenLimit at its check; a ledger entry appended when the
\* recorded total is already at the limit comes from a request admitted
\* before the limit was reached (so such entries are at most the requests
\* in flight at that moment), one entry per request; and a request checked
\* while no other request is in flight is not admitted once the recorded
\* total has reached the limit.
C17_Original ==
  /\ [](\A r \in InFlight :
          (req[r].usageCheck # NoResult /\ req[r].usageCheck.canProceed) =>
            req[r].usageCheck.limitsInfo.dailyTokens < DailyLimit)
  /\ [][ \A r \in InFlight :
           /\ (req[r].pc = "trackUsage" /\ req'[r].pc = "done"
                 /\ DailyTotal >= DailyLimit) =>
                /\ req[r].usageCheck.limitsInfo.dailyTokens < DailyLimit
                /\ Len(usageStats') = Len(usageStats) + 1
           /\ (/\ req[r].pc = "checkUsage" /\ req'[r].pc # "checkUsage"
               /\ \A q \in InFlight \ { r } : req[q].pc \in { "idle", "done" }
               /\ DailyTotal >= DailyLimit) =>
                ~req'[r].usageCheck.canProceed ]_vars

(***************************************************************************)
(* The third worked question (SpecFilter).                                 *)
(***************************************************************************)

\* C18 as stated: "Explain photosynthesis and cell biology" counts 3
\* science keywords and 0 literature keywords and is a violation by rule
\* (d), category science, confidence 0.6.
C18_Original ==
  (fCall = "checkContentFilter"
     /\ fText = "Explain photosynthesis and cell biology") =>
    /\ fLocals.scores.science = 3
    /\ fLocals.scores.literature = 0
    /\ fResult.isViolation
    /\ fResult.details.template = "primarily"
    /\ fResult.category = "science"
    /\ fResult.confidence = 60

\* C18 amended: "Explain photosynthesis and cell biology" counts 3 science
\* keywords (biology, cell, photosynthesis) and 1 literature keyword
\* (thesis, inside photosynthesis) and starts with an opener; it is a
\* violation by rule (d), category science, confidence 0.6.
C18_Amended ==
  (fCall = "checkContentFilter"
     /\ fText = "Explain photosynthesis and cell biology") =>
    /\ fLocals.scores = [ math |-> 0, science |-> 3, technology |-> 0,
                          other |-> 0, literature |-> 1 ]
    /\ fLocals.detectedKeywords.science = << "biology", "cell", "photosynthesis" >>
    /\ fLocals.isHomeworkPattern
    /\ fResult.isViolation
    /\ fResult.details.template = "primarily"
    /\ fResult.category = "science"
    /\ fResult.confidence = 60

\* C18 witness: the classifier has run on the worked question
C18_Witness ==
  /\ fCall = "checkContentFilter"
  /\ fText = "Explain photosynthesis and cell biology"
  /\ fLocals.scores.science = 3
  /\ fResult.isViolation
  /\ fResult.confidence = 60

(***************************************************************************)
(* Admin requests (SpecAdmin).  aResp is the answer to the latest admin    *)
(* request: status 0 for requireAdmin means that next() was called.        *)
(***************************************************************************)
MaxTokens == 1

MaxQuarters == 2

\* a day less a quarter of an hour
DayJump == TokenLifetime - 1

\* req.cookies.admin_token: absent, a value never issued (0), an issued one
Cookies == { NoInt } \cup { << t >> : t \in 0..issued }

Response(op, ip, token, status, examined, correct) ==
  [ op |-> op, ip |-> ip, token |-> token, status |-> status,
    examined |-> examined, correct |-> correct ]

\* POST /api/admin/login
adminLogin(ip, password) ==
  LET rl == checkRateLimit(ip)
      correct == PasswordMatches(password)
  IN  IF ~rl.allowed
        THEN /\ aResp' = Response("login", ip, NoInt, 429, FALSE, correct)
             /\ loginAttempts' = rl.map
             /\ UNCHANGED << adminTokens, issued >>
      ELSE IF ~correct
        THEN /\ aResp' = Response("login", ip, NoInt, 401, TRUE, correct)
             /\ loginAttempts' = rl.map
             /\ UNCHANGED << adminTokens, issued >>
      ELSE /\ issued < MaxTokens
           /\ loginAttempts' = [ rl.map EXCEPT ![ip] = << >> ]
           /\ \E ok \in BOOLEAN :
                IF ok
                  THEN /\ adminTokens' =
                            adminTokens \cup { [ token |-> issued + 1,
                                                 expiresAt |-> now + TokenLifetime ] }
                       /\ issued' = issued + 1
                       /\ aResp' = Response("login", ip, << issued + 1 >>, 200, TRUE, correct)
                  ELSE /\ aResp' = Response("login", ip, NoInt, 500, TRUE, correct)
                       /\ UNCHANGED << adminTokens, issued >>

\* POST /api/admin/logout
adminLogout(cookie) ==
  /\ UNCHANGED << loginAttempts, issued >>
  /\ IF cookie = NoInt
       THEN /\ aResp' = Response("logout", Null, cookie, 200, FALSE, FALSE)
            /\ UNCHANGED adminTokens
       ELSE \E ok \in BOOLEAN :
              IF ok
                THEN /\ adminTokens' = deleteAdminToken(cookie[1])
                     /\ aResp' = Response("logout", Null, cookie, 200, FALSE, FALSE)
                ELSE /\ aResp' = Response("logout", Null, cookie, 500, FALSE, FALSE)
                     /\ UNCHANGED adminTokens

\* the requireAdmin middleware in front of every /api/admin route
requireAdmin(cookie) ==
  /\ UNCHANGED << loginAttempts, adminTokens, issued >>
  /\ IF cookie = NoInt
       THEN aResp' = Response("requireAdmin", Null, cookie, 401, FALSE, FALSE)
       ELSE \E ok \in BOOLEAN :
              aResp' = Response("requireAdmin", Null, cookie,
                                IF ~ok THEN 500
                                ELSE IF getAdminToken(cookie[1]) = { } THEN 401
                                ELSE 0,
                                FALSE, FALSE)

\* cleanupExpiredTokens(), run periodically; a store error is swallowed
cleanupExpiredTokens ==
  /\ \E ok \in BOOLEAN :
       adminTokens' = IF ok THEN ExpiredTokensRemoved ELSE adminTokens
  /\ aResp' = Response("cleanup", Null, NoInt, 0, FALSE, FALSE)
  /\ UNCHANGED << loginAttempts, issued >>

\* a quarter of an hour passes
TickQuarter ==
  /\ now % DayJump < MaxQuarters
  /\ now' = now + 1
  /\ UNCHANGED << students, settings, usageStats, adminVars >>

\* a day less a quarter of an hour passes; the clock is followed over one
\* token lifetime
DayPasses ==
  /\ now < DayJump
  /\ now' = now + DayJump
  /\ UNCHANGED << students, settings, usageStats, adminVars >>

InitAdmin ==
  /\ StoreEmpty
  /\ ServerIdle
  /\ UsageIdle
  /\ FilterIdle
  /\ AdminIdle

NextAdmin ==
  \/ /\ \/ \E ip \in IPs, password \in Passwords : adminLogin(ip, password)
        \/ \E cookie \in Cookies : adminLogout(cookie)
        \/ \E cookie \in Cookies : requireAdmin(cookie)
        \/ cleanupExpiredTokens
     /\ UNCHANGED << storeVars, serverVars, filterVars, usageVars >>
  \/ /\ \/ TickQuarter
        \/ DayPasses
     /\ UNCHANGED << serverVars, filterVars, usageVars >>

SpecAdmin == InitAdmin /\ [][NextAdmin]_vars

\* a step that answers a login request of ip
LoginStep(ip) ==
  /\ aResp'.op = "login"
  /\ aResp'.ip = ip
  /\ adminVars' # adminVars

\* C19: a login request of an IP whose counter is at MAX_LOGIN_ATTEMPTS
\* and whose last counted attempt is at most LOCKOUT_DURATION old is
\* answered 429 with the password not examined, the counter and the tokens
\* untouched, whatever the password is; every other login request has its
\* password examined (401 for a wrong one), with a counted attempt number
\* of at most MAX_LOGIN_ATTEMPTS; the counters of other IPs are not touched.
C19_LoginRateLimit ==
  [][ \A ip \in IPs :
        LoginStep(ip) =>
          LET a == loginAttempts[ip]
              locked == /\ a # << >>
                        /\ a[1].count >= MAX_LOGIN_ATTEMPTS
                        /\ now - a[1].lastAttempt <= LOCKOUT_DURATION
          IN  /\ locked =>
                   /\ aResp'.status = 429
                   /\ ~aResp'.examined
                   /\ loginAttempts' = loginAttempts
                   /\ adminTokens' = adminTokens
              /\ ~locked =>
                   /\ aResp'.examined
                   /\ aResp'.status = IF aResp'.correct
                                        THEN IF adminTokens' # adminTokens
                                               THEN 200 ELSE 500
                                        ELSE 401
                   /\ loginAttempts'[ip] # << >> =>
                        loginAttempts'[ip][1].count
                          \in 1..MAX_LOGIN_ATTEMPTS
              /\ \A other \in IPs \ { ip } :
                   loginAttempts'[other] = loginAttempts[other] ]_vars

\* C19 witness: the right password is answered 429 a quarter of an hour
\* after the fifth counted attempt of that IP
C19_Witness ==
  /\ aResp.op = "login"
  /\ aResp.status = 429
  /\ aResp.correct
  /\ loginAttempts[aResp.ip]
       = << [ count |-> MAX_LOGIN_ATTEMPTS, lastAttempt |-> now - LOCKOUT_DURATION ] >>

\* C20 (amended): requireAdmin calls next() only for a cookie whose token is a row
\* of admin_tokens with now <= expiresAt, and answers 401 (500 when the
\* store read rejects) otherwise; a row is only ever inserted by a login
\* with the right password, with a token never used before and
\* expiresAt = now + 24 h; and a logout answered 200 leaves no row with its
\* token, so that token never authenticates again.
C20_Amended ==
  [][ /\ (aResp'.op = "requireAdmin" /\ adminVars' # adminVars) =>
           LET valid == /\ aResp'.token # NoInt
                        /\ \E row \in adminTokens :
                             /\ row.token = aResp'.token[1]
                             /\ now <= row.expiresAt
           IN  /\ aResp'.status = 0 => valid
               /\ ~valid => aResp'.status \in { 401, 500 }
      /\ \A row \in adminTokens' \ adminTokens :
           /\ aResp'.op = "login"
           /\ aResp'.correct
           /\ aResp'.status = 200
           /\ aResp'.token = << row.token >>
           /\ row.token = issued + 1
           /\ issued' = issued + 1
           /\ row.expiresAt = now + TokenLifetime
      /\ issued' >= issued
      /\ \A row \in adminTokens' : row.token \in 1..issued'
      /\ (aResp'.op = "logout" /\ adminVars' # adminVars
            /\ aResp'.status = 200 /\ aResp'.token # NoInt) =>
           \A row \in adminTokens' : row.token # aResp'.token[1] ]_vars

\* C20 witness: a token authenticates at the very instant of its expiry
C20_Witness ==
  /\ aResp.op = "requireAdmin"
  /\ aResp.status = 0
  /\ \E row \in adminTokens :
       /\ << row.token >> = aResp.token
       /\ row.expiresAt = now

\* C20 as stated, in its weakest reading: the request that follows an
\* adminLogout with the same token does not authenticate (the statement
\* asks for 401). Refuted by a logout whose deleteAdminToken rejects: it
\* is answered 500 "Logout failed", the row stays, and the token
\* authenticates the next request.
C20_Original ==
  [][ ( /\ aResp.op = "logout"
        /\ aResp.token # NoInt
        /\ aResp'.op = "requireAdmin"
        /\ aResp'.token = aResp.token )
      => aResp'.status # 0 ]_vars

(***************************************************************************)
(* The keyword list of the details string (SpecFilter).                    *)
(***************************************************************************)

\* C22 as stated: the details string of every violation result names at
\* most 5 keywords.  Refuted by rule (a), which prints keywords.join(', ')
\* without slice(0, 5): a direct question with six science keywords and no
\* literature keyword names all six.
C22_Original ==
  (fCall = "checkContentFilter" /\ fResult.isViolation) =>
    Len(fResult.details.keywords) <= 5

(***************************************************************************)
(* Well-formed results (SpecFilter).                                       *)
(***************************************************************************)

\* C23: every result of checkContentFilter, returned directly or inside
\* the result of shouldBlockContent, has a confidence in [0, 1] and a
\* category exactly when it is a violation; the category is then one of
\* math, science, technology, other and its keyword count is at least 1;
\* a block reason names that category.
C23_WellFormed ==
  fCall # Null =>
    LET fr == IF fCall = "checkContentFilter" THEN fResult
              ELSE fResult.filterResult
    IN  /\ fr.confidence \in 0..100
        /\ fr.isViolation <=> fr.category # Null
        /\ fr.isViolation =>
             /\ fr.category \in { "math", "science", "technology", "other" }
             /\ fLocals.scores[fr.category] >= 1
        /\ (fCall = "shouldBlockContent" /\ fResult.shouldBlock) =>
             /\ fr.isViolation
             /\ fResult.reason.category = fr.category

\* C23 witness: a question with no math keyword is blocked with a reason
\* that names technology, a category the question has a keyword of
C23_Witness ==
  /\ fCall = "shouldBlockContent"
  /\ fResult.shouldBlock
  /\ fLocals.scores.math = 0
  /\ fLocals.scores.technology >= 1
  /\ fResult.reason.category = "technology"

(***************************************************************************)
(* Blocking as a function of the number of off-topic hits (SpecFilter).    *)
(***************************************************************************)

\* scores.math + scores.science + scores.technology + scores.other
TotalNonLit(scores) ==
  scores.math + scores.science + scores.technology + scores.other

\* C24 as stated: in normal mode, among texts with no literature keyword
\* and no opener, when a text of phrases is blocked then the text made of
\* it and one more phrase, if that has exactly one more off-topic hit, is blocked too.
\* Refuted at n = 2: two hits are a violation of confidence 0.7 (blocked),
\* three hits one of confidence 3/5 = 0.6 (not blocked).
C24_Original ==
  ( /\ fCall = "shouldBlockContent"
    /\ fSettingsRead.status # "throws"
    /\ ModeOf(fSettingsRead) = "normal"
    /\ TrimEnd(fText) # fText
    /\ fLocals.scores.literature = 0
    /\ ~fLocals.isHomeworkPattern
    /\ fResult.shouldBlock ) =>
    \A f \in Fragments :
      LET longer == fText \o f
          m == Match(longer)
      IN  ( /\ m.scores.literature = 0
            /\ ~m.isHomeworkPattern
            /\ TotalNonLit(m.scores) = TotalNonLit(fLocals.scores) + 1 )
          => shouldBlockContent(longer, fSettingsRead).shouldBlock

(***************************************************************************)
(* The verdict as a function of the literature count (SpecFilter).         *)
(***************************************************************************)
MaxLiterature == 6

\* C29: with the off-topic counts and the opener flag of a text fixed, if
\* the ladder answers not-violation for k literature keywords it answers
\* not-violation for every k' > k; and with totalNonLit >= 3 it answers
\* violation for every number of literature keywords (k, k' up to
\* MaxLiterature).
C29_VerdictMonotone ==
  fCall = "checkContentFilter" =>
    LET verdict(k) ==
          Classify([ fLocals.scores EXCEPT !.literature = k ],
                   fLocals.isHomeworkPattern,
                   fLocals.detectedKeywords).isViolation
    IN  /\ verdict(fLocals.scores.literature) = fResult.isViolation
        /\ \A k \in 0..MaxLiterature :
             ~verdict(k) => \A k2 \in (k + 1)..MaxLiterature : ~verdict(k2)
        /\ TotalNonLit(fLocals.scores) >= 3 =>
             \A k \in 0..MaxLiterature : verdict(k)

\* C29 witness: a text with two off-topic hits and two literature keywords
\* is allowed, the same counts without literature keyword are a violation
C29_Witness ==
  /\ fCall = "checkContentFilter"
  /\ TotalNonLit(fLocals.scores) = 2
  /\ fLocals.scores.literature = 2
  /\ ~fResult.isViolation
  /\ Classify([ fLocals.scores EXCEPT !.literature = 0 ],
              fLocals.isHomeworkPattern, fLocals.detectedKeywords).isViolation

(***************************************************************************)
(* Counting of keywords (SpecFilter).                                      *)
(***************************************************************************)

\* C30: the count of an off-topic category is the number of its keywords
\* found in the text, each once; saying the text twice changes no count
\* (the literature count included, which counts the entries of its list);
\* and a text that says only 'variable', once or twice, counts 1 for math
\* and 1 for technology and is a violation of confidence 0.7, category
\* math.
C30_CountedOnce ==
  fCall = "checkContentFilter" =>
    /\ \A c \in DOMAIN NON_ENGLISH_KEYWORDS :
         LET found == fLocals.detectedKeywords[c]
         IN  /\ fLocals.scores[c] = Len(found)
             /\ \A i, j \in 1..Len(found) : found[i] = found[j] => i = j
             /\ \A i \in 1..Len(found) :
                  Includes(ToLowerCase(fText), ToLowerCase(found[i]))
    /\ Match(fText \o " " \o fText).scores = fLocals.scores
    /\ Trim(fText) \in { "variable", "variable variable" } =>
         /\ fLocals.scores = [ math |-> 1, science |-> 0, technology |-> 1,
                               other |-> 0, literature |-> 0 ]
         /\ ~fLocals.isHomeworkPattern
         /\ fResult.isViolation
         /\ fResult.confidence = 70
         /\ fResult.category = "math"
         /\ fResult.details.template = "possibly"

\* C30 witness: the text says 'variable' twice and nothing else
C30_Witness ==
  /\ fCall = "checkContentFilter"
  /\ Trim(fText) = "variable variable"
  /\ fLocals.detectedKeywords.math = << "variable" >>
  /\ fLocals.detectedKeywords.technology = << "variable" >>
  /\ fResult.isViolation
  /\ fResult.confidence = 70

(***************************************************************************)
(* The lockout window of the admin login (SpecAdmin).                      *)
(***************************************************************************)

\* C26: a login request answered 429 leaves the loginAttempts map as it
\* was; a request made more than LOCKOUT_DURATION after the IP's last
\* counted attempt is admitted and leaves the counter at 1 with
\* lastAttempt = now (or no entry, after a right password); a request made
\* exactly LOCKOUT_DURATION after the fifth counted attempt is answered
\* 429; and no counter exceeds MAX_LOGIN_ATTEMPTS.
C26_LockoutNotExtended ==
  [][ \A ip \in IPs :
        LoginStep(ip) =>
          LET a == loginAttempts[ip]
          IN  /\ aResp'.status = 429 => loginAttempts' = loginAttempts
              /\ (a # << >> /\ now - a[1].lastAttempt > LOCKOUT_DURATION) =>
                   /\ aResp'.status # 429
                   /\ aResp'.examined
                   /\ loginAttempts'[ip]
                        \in { << >>, << [ count |-> 1, lastAttempt |-> now ] >> }
                   /\ ~aResp'.correct => loginAttempts'[ip] # << >>
              /\ ( /\ a # << >>
                   /\ a[1].count = MAX_LOGIN_ATTEMPTS
                   /\ now - a[1].lastAttempt = LOCKOUT_DURATION ) =>
                   aResp'.status = 429
              /\ \A other \in IPs :
                   loginAttempts'[other] # << >> =>
                     loginAttempts'[other][1].count <= MAX_LOGIN_ATTEMPTS ]_vars

\* C26 witness: a wrong password is answered 429 exactly a quarter of an
\* hour after the fifth counted attempt, and lastAttempt is still the time
\* of that attempt
C26_Witness ==
  /\ aResp.op = "login"
  /\ aResp.status = 429
  /\ ~aResp.correct
  /\ now >= LOCKOUT_DURATION
  /\ loginAttempts[aResp.ip]
       = << [ count |-> MAX_LOGIN_ATTEMPTS, lastAttempt |-> now - LOCKOUT_DURATION ] >>

(***************************************************************************)
(* What a refused request and a failed generation leave behind (Spec).     *)
(***************************************************************************)

\* the request was denied by the usage check or blocked by the policy
Refused(q) ==
  \/ q.usageCheck # NoResult /\ ~q.usageCheck.canProceed
  \/ q.contentCheck # NoResult /\ q.contentCheck.shouldBlock

\* a step of the handler of request r
HandlerStep(r) == req'[r] # req[r]

\* C27: every step of a request that the usage check denied or the policy
\* blocked, the step of the check included, leaves chat_messages,
\* usage_stats and chat_sessions as they are; the request has not invoked
\* the model and only goes on to log a violation event and answer; the
\* violation_events table is unchanged or has one more row, of this
\* request.
C27_RefusedFrame ==
  [][ \A r \in Reqs :
        (HandlerStep(r) /\ Refused(req'[r])) =>
          /\ chatMessages' = chatMessages
          /\ usageStats' = usageStats
          /\ chatSessions' = chatSessions
          /\ \A i \in 1..Len(req'[r].stages) : req'[r].stages[i] # "generate"
          /\ req'[r].pc \in { "logRateLimit", "logContent", "done" }
          /\ req'[r].pc = "done" => req'[r].status \in { 429, 403, 500 }
          /\ \/ violationEvents' = violationEvents
             \/ /\ Len(violationEvents') = Len(violationEvents) + 1
                /\ SubSeq(violationEvents', 1, Len(violationEvents)) = violationEvents
                /\ violationEvents'[Len(violationEvents')].sessionId
                     = req[r].sessionId
                /\ violationEvents'[Len(violationEvents')].category
                     \in { "rate-limit", "non-english" } ]_vars

\* C27 witness: a blocked question was answered 403 with its event stored
\* (the table has one more row than at the start) and no chat message
C27_Witness ==
  \E r \in Reqs :
    /\ req[r].pc = "done"
    /\ req[r].status = 403
    /\ req[r].contentCheck.shouldBlock
    /\ chatMessages = << >>
    /\ violationEvents # << >>
    /\ violationEvents[Len(violationEvents)].detail = req[r].content
    /\ violationEvents[Len(violationEvents)].category = "non-english"
    /\ Len(violationEvents) = Len(usageStats) + 1

\* the step in which the text-generation call of request r rejects
GenerationFails(r) ==
  /\ req[r].pc = "generate"
  /\ req'[r].pc = "done"
  /\ req'[r].usage = NoResult

\* the user message of request r is in the session history
UserMessageStored(r) ==
  \E i \in 1..Len(chatMessages) :
    chatMessages[i] = [ sessionId |-> req[r].sessionId, role |-> "user",
                        content |-> req[r].content ]

\* C28: when the text-generation call of a request rejects, the request
\* ends with 500 and the step changes neither chat_messages nor
\* usage_stats; a /messages request has its user message stored by then
\* (it is stored before the model is invoked), and no step of a
\* /professor-mode request up to a rejected generation stores anything; an answered request takes no further step, so no
\* assistant message and no ledger entry follow.
C28_FailedGeneration ==
  [][ \A r \in Reqs :
        /\ GenerationFails(r) =>
             /\ req'[r].status = 500
             /\ chatMessages' = chatMessages
             /\ usageStats' = usageStats
             /\ req[r].route = "messages" => UserMessageStored(r)
        /\ (req[r].pc = "generate" /\ req[r].route = "messages") =>
             UserMessageStored(r)
        /\ ( /\ HandlerStep(r)
             /\ req'[r].route = "professor-mode"
             /\ req'[r].usage = NoResult ) =>
             (chatMessages' = chatMessages /\ usageStats' = usageStats)
        /\ req[r].pc = "done" => req'[r] = req[r] ]_vars

\* C28 witness: a /messages request ended with 500 after the generation
\* call rejected; the history holds its user message alone and the ledger
\* is as it was
C28_Witness ==
  \E r \in Reqs :
    /\ req[r].route = "messages"
    /\ req[r].pc = "done"
    /\ req[r].status = 500
    /\ req[r].stages = << "usage", "content", "generate" >>
    /\ req[r].usage = NoResult
    /\ chatMessages = << [ sessionId |-> req[r].sessionId, role |-> "user",
                           content |-> req[r].content ] >>
    /\ usageStats = << >>

(***************************************************************************)
(* The class roster (SpecRoster): students open sessions with POST         *)
(* /api/sessions (routes.ts:167-200) and send questions while an admin,    *)
(* past requireAdmin, deactivates, reactivates and deletes students with   *)
(* PATCH and DELETE /api/admin/students/:email (routes.ts:459-493).        *)
(***************************************************************************)

\* the request arrives; a body without studentEmail fails the schema: 400
ReceiveSession(r, email) ==
  /\ req[r].pc = "idle"
  /\ \A q \in Reqs : q < r => req[q].pc # "idle"
  /\ req' = [ req EXCEPT ![r] =
                [ @ EXCEPT !.route = "sessions", !.studentEmail = email,
                           !.pc = IF email = Null THEN "done" ELSE "getStudent",
                           !.status = IF email = Null THEN 400 ELSE 0 ] ]
  /\ UNCHANGED << storeVars, chatSessions, chatMessages, violationEvents >>

\* the whitelist check of POST /api/sessions without the isActive test
ValidateStudent_OnlyMissing(r) ==
  /\ req[r].pc = "getStudent"
  /\ \E student \in { getStudent(req[r].studentEmail), ReadThrows } :
       req' = IF student.status = "throws" THEN Respond(r, 500)
              ELSE IF student.status = "none" THEN Respond(r, 403)
              ELSE [ req EXCEPT ![r].pc = "createSession" ]
  /\ UNCHANGED << storeVars, chatSessions, chatMessages, violationEvents >>

\* const student = await storage.getStudent(sessionData.studentEmail);
\* 403 when there is no row, 403 when the row is not active
ValidateStudent(r) ==
  /\ req[r].pc = "getStudent"
  /\ \E student \in { getStudent(req[r].studentEmail), ReadThrows } :
       req' = IF student.status = "throws" THEN Respond(r, 500)
              ELSE IF student.status = "none" THEN Respond(r, 403)
              ELSE IF ~student.row.isActive THEN Respond(r, 403)
              ELSE [ req EXCEPT ![r].pc = "createSession" ]
  /\ UNCHANGED << storeVars, chatSessions, chatMessages, violationEvents >>

\* const session = await storage.createChatSession(sessionData); the id of
\* the new session is its position in the table
CreateSession(r) ==
  /\ req[r].pc = "createSession"
  /\ Len(chatSessions) < MaxSessionId
  /\ \E ok \in BOOLEAN :
       IF ok
         THEN /\ chatSessions' =
                   Append(chatSessions, [ studentEmail |-> req[r].studentEmail ])
              /\ req' = [ req EXCEPT ![r].pc = "done", ![r].status = 200,
                                     ![r].sessionId = Len(chatSessions) + 1 ]
         ELSE /\ req' = Respond(r, 500)
              /\ UNCHANGED chatSessions
  /\ UNCHANGED << storeVars, chatMessages, violationEvents >>

\* PATCH /api/admin/students/:email with body { isActive }:
\* storage.updateStudent; no row is a 404, a rejection a 500
PatchStudent(email, isActive) ==
  /\ \E ok \in BOOLEAN :
       students' = IF ok /\ students[email].status = "ok"
                     THEN [ students EXCEPT ![email].row.isActive = isActive ]
                     ELSE students
  /\ UNCHANGED << settings, usageStats, now, serverVars >>

\* DELETE /api/admin/students/:email: storage.deleteStudent
DeleteStudent(email) ==
  /\ \E ok \in BOOLEAN :
       students' = IF ok THEN [ students EXCEPT ![email] = ReadNone ]
                   ELSE students
  /\ UNCHANGED << settings, usageStats, now, serverVars >>

\* the questions of the roster runs: a literature question and a blocked one
RosterContents == { "Why did Westley die?", "What is pi?" }

\* the class at start: one whitelisted student without limits, who has
\* opened no session yet or one session
InitRoster ==
  /\ students = [ e \in Emails |->
                    IF e = CheckedStudent THEN ReadRow(Unlimited) ELSE ReadNone ]
  /\ settings = ReadNone
  /\ usageStats = << >>
  /\ now = 0
  /\ chatSessions \in { << >>, << [ studentEmail |-> CheckedStudent ] >> }
  /\ chatMessages = << >>
  /\ violationEvents = << >>
  /\ req = [ r \in Reqs |-> IdleRequest ]
  /\ UsageIdle
  /\ FilterIdle
  /\ AdminIdle

NextRoster ==
  \/ /\ \E r \in Reqs :
          \/ \E email \in Emails \cup { Null } : ReceiveSession(r, email)
          \/ ValidateStudent(r)
          \/ CreateSession(r)
          \/ \E route \in Routes, sessionId \in 1..MaxSessionId,
                content \in RosterContents :
               Receive(r, route, sessionId, content)
          \/ GetSession(r)
          \/ CheckUsage(r)
          \/ LogRateLimit(r)
          \/ CheckContent(r)
          \/ LogContent(r)
          \/ SaveUserMessage(r)
          \/ GetHistory(r)
          \/ Generate(r)
          \/ SaveAskedMessage(r)
          \/ SaveAssistantMessage(r)
          \/ TrackUsage(r)
     /\ UNCHANGED << filterVars, usageVars, adminVars >>
  \/ /\ \/ \E isActive \in BOOLEAN : PatchStudent(CheckedStudent, isActive)
        \/ DeleteStudent(CheckedStudent)
     /\ UNCHANGED << filterVars, usageVars, adminVars >>

SpecRoster == InitRoster /\ [][NextRoster]_vars

\* C21: the whitelist check of POST /api/sessions answers 403 and creates
\* no session when the lookup finds no row or a row that is not active
\* (500 when the lookup rejects); the handler goes on to createChatSession
\* only when the lookup found an active student; and a row is added to
\* chat_sessions only by that step, for the email that was checked.
C21_SessionWhitelist ==
  [][ /\ \A r \in Reqs :
           /\ (req[r].pc = "getStudent" /\ HandlerStep(r)) =>
                LET student == getStudent(req[r].studentEmail)
                    refused == student.status = "none" \/ ~student.row.isActive
                IN  /\ chatSessions' = chatSessions
                    /\ refused => /\ req'[r].pc = "done"
                                  /\ req'[r].status \in { 403, 500 }
                    /\ req'[r].status = 403 => refused
                    /\ ~refused => \/ req'[r].pc = "createSession"
                                   \/ req'[r].status = 500
           /\ (req'[r].pc = "createSession" /\ req[r].pc # "createSession") =>
                req[r].pc = "getStudent"
      /\ chatSessions' # chatSessions =>
           \E r \in Reqs :
             /\ req[r].route = "sessions"
             /\ req[r].pc = "createSession"
             /\ req'[r].status = 200
             /\ chatSessions' =
                  Append(chatSessions, [ studentEmail |-> req[r].studentEmail ]) ]_vars

\* C21 witness: a deactivated student asked for a session and got 403, and
\* no session of the student was added
C21_Witness ==
  \E r \in Reqs :
    /\ req[r].route = "sessions"
    /\ req[r].pc = "done"
    /\ req[r].status = 403
    /\ students[req[r].studentEmail].status = "ok"
    /\ ~students[req[r].studentEmail].row.isActive
    /\ chatSessions = << >>

\* the student is not in the whitelist or is deactivated
Gone(email) ==
  students[email].status = "none" \/ ~students[email].row.isActive

\* C25: a usage check that runs while the student of the session is
\* deleted or deactivated denies the request, on both routes; the denied
\* request then stores a 'rate-limit' event and answers 429 (or answers 500
\* with no event when the write of the event rejects) and takes no further
\* step; it invokes no model and adds no chat message and no ledger entry.
C25_DeactivatedDenied ==
  [][ \A r \in Reqs :
        /\ (req[r].pc = "checkUsage" /\ HandlerStep(r)
              /\ Gone(req[r].studentEmail)) =>
             /\ req'[r].usageCheck # NoResult
             /\ ~req'[r].usageCheck.canProceed
             /\ req'[r].pc = "logRateLimit"
             /\ chatMessages' = chatMessages
             /\ usageStats' = usageStats
             /\ violationEvents' = violationEvents
        /\ (req[r].pc = "logRateLimit" /\ HandlerStep(r)) =>
             /\ req'[r].pc = "done"
             /\ req'[r].stages = << "usage" >>
             /\ chatMessages' = chatMessages
             /\ usageStats' = usageStats
             /\ \/ /\ req'[r].status = 429
                   /\ violationEvents' =
                        Append(violationEvents,
                               [ studentEmail |-> req[r].studentEmail,
                                 sessionId |-> req[r].sessionId,
                                 category |-> "rate-limit",
                                 detail |-> req[r].usageCheck.reason.template,
                                 status |-> "flagged", bypassedAt |-> NoInt ])
                \/ /\ req'[r].status = 500
                   /\ violationEvents' = violationEvents
        /\ (req[r].pc = "done" /\ req[r].status \in { 429, 500 }) =>
             req'[r] = req[r] ]_vars

\* C25 witness: the student of a session was deleted, and a
\* /professor-mode request on the session was answered 429 with its event
\* stored, no message and no ledger entry
C25_Witness ==
  \E r \in Reqs :
    /\ req[r].route = "professor-mode"
    /\ req[r].pc = "done"
    /\ req[r].status = 429
    /\ req[r].usageCheck.reason.template = "Student not found or inactive"
    /\ chatSessions[req[r].sessionId].studentEmail = CheckedStudent
    /\ students[CheckedStudent].status = "none"
    /\ violationEvents # << >>
    /\ violationEvents[Len(violationEvents)].category = "rate-limit"
    /\ chatMessages = << >>
    /\ usageStats = << >>

====
